---- MODULE Spec2Model ----
(***************************************************************************)
(* Model of the habit tracker store of tg_challenge_bot (src/database.py,  *)
(* src/data.py): three SQLite relations (tracker_entries, habits, users),  *)
(* the write operations set_tracker_entry / set_habit / set_user, each a   *)
(* connection that executes one statement and commits, and the read        *)
(* queries, computed on the committed relations.                           *)
(*                                                                         *)
(* TEXT values that SQL compares or orders (habit_id, date) are sequences  *)
(* of character codes, compared as SQLite's BINARY collation does.         *)
(* Optional[...] results are sequences of length at most one: <<>> is      *)
(* Python's None, <<x>> is the value x.                                    *)
(*                                                                         *)
(* The seeding of a chat (init_test_data) is a caller's program of write   *)
(* calls behind a guard read. The handlers of src/main.py that keep        *)
(* pinned_messages (/pin, /pin_new, /edit_pinned) and that delete messages *)
(* (/delete_my, /delete_any) act on the bot's own state and on Telegram's. *)
(***************************************************************************)
EXTENDS Integers, Sequences, FiniteSets, TLC

VARIABLES
    tracker_entries,   \* rows of table tracker_entries (committed)
    habits,            \* rows of table habits (committed)
    users,             \* rows of table users (committed)
    sqlite_sequence,   \* AUTOINCREMENT counters, one per table (committed)
    now,               \* the value CURRENT_TIMESTAMP yields
    pc,                \* per caller: "idle", "connected", "executed"
    call,              \* per caller: the call in progress, or NoCall
    writer,            \* the caller holding SQLite's write lock, or 0
    txn,               \* the lock holder's uncommitted database image
    outcome,           \* per caller: how its last call ended
    calls,             \* number of calls made from outside so far
    script,            \* per caller: the calls its program makes, in order
    ip,                \* per caller: the position in script of its next call
    fetch,             \* the get_tracker_data_for_chat call: its position,
                       \* arguments, local variables and returned value, and
                       \* the tables that were committed while it ran
    pinned_messages,   \* main.pinned_messages: per chat, the stored entry
    messages,          \* the messages of the chats; message_id is the index
    pinned,            \* per chat: the message pin_chat_message pinned
                       \* last, or 0
    clock,             \* hours since the bot started
    last               \* the update handled last: the handler's local
                       \* variables and the Bot API calls it made

botVars == <<pinned_messages, messages, pinned, clock, last>>

vars == <<tracker_entries, habits, users, sqlite_sequence, now, pc, call,
          writer, txn, outcome, calls, script, ip, fetch, botVars>>

----------------------------------------------------------------------------
(* Bounds of the model *)

MaxCalls == 2
MaxClock == 1
MaxMessages == 2
MaxPeriods == 2

Procs == {1, 2}

----------------------------------------------------------------------------
(* TEXT values *)

\* str(n) zero-padded to width w, as strftime's %Y, %m, %d produce it
RECURSIVE Pad(_, _)
Pad(n, w) == IF w = 0 THEN <<>> ELSE Append(Pad(n \div 10, w - 1), 48 + (n % 10))

\* date.strftime("%Y-%m-%d")
strftime(y, m, d) == Pad(y, 4) \o <<45>> \o Pad(m, 2) \o <<45>> \o Pad(d, 2)

\* SQLite's BINARY collation: memcmp on the common prefix, then the length
RECURSIVE TextLessFrom(_, _, _)
TextLessFrom(a, b, i) ==
    IF i > Len(a) THEN i <= Len(b)
    ELSE IF i > Len(b) THEN FALSE
    ELSE IF a[i] = b[i] THEN TextLessFrom(a, b, i + 1)
    ELSE a[i] < b[i]

TextLess(a, b) == TextLessFrom(a, b, 1)

TextLeq(a, b) == a = b \/ TextLess(a, b)

----------------------------------------------------------------------------
(* Python values *)

None == <<>>
Some(x) == <<x>>

\* Python's truth value of an argument, as "1 if status else 0" tests it.
\* Arguments are written as their Python literals.
Truthy(v) == v \in {"True", "2", "'no'"}

----------------------------------------------------------------------------
(* Table tracker_entries *)

\* WHERE chat_id = ? AND user_id = ? AND habit_id = ? AND date = ?
EntryRows(T, chat_id, user_id, habit_id, date) ==
    {r \in T : /\ r.chat_id = chat_id
               /\ r.user_id = user_id
               /\ r.habit_id = habit_id
               /\ r.date = date}

\* DELETE whose WHERE clause lacks "AND date = ?"
DeleteEntry_all_dates(T, chat_id, user_id, habit_id, date) ==
    {r \in T : ~(/\ r.chat_id = chat_id
                 /\ r.user_id = user_id
                 /\ r.habit_id = habit_id)}

\* DELETE whose WHERE clause names the chat alone
DeleteEntry_whole_chat(T, chat_id, user_id, habit_id, date) ==
    {r \in T : r.chat_id # chat_id}

\* DELETE FROM tracker_entries WHERE <key>
DeleteEntry(T, chat_id, user_id, habit_id, date) ==
    T \ EntryRows(T, chat_id, user_id, habit_id, date)

\* INSERT without the ON CONFLICT clause, on a table without the UNIQUE
\* constraint
UpsertEntry_plain_insert(T, seq, chat_id, user_id, habit_id, date, status_int, t) ==
    T \cup {[id |-> seq + 1, chat_id |-> chat_id, user_id |-> user_id,
             habit_id |-> habit_id, date |-> date, status |-> status_int,
             created_at |-> t, updated_at |-> t]}

\* INSERT OR REPLACE on a table whose UNIQUE constraint leaves the date out:
\* the new row replaces every row of its (chat_id, user_id, habit_id)
UpsertEntry_replace_pair(T, seq, chat_id, user_id, habit_id, date, status_int, t) ==
    {r \in T : ~(r.chat_id = chat_id /\ r.user_id = user_id
                   /\ r.habit_id = habit_id)}
       \cup {[id |-> seq + 1, chat_id |-> chat_id, user_id |-> user_id,
               habit_id |-> habit_id, date |-> date, status |-> status_int,
               created_at |-> t, updated_at |-> t]}

\* The upsert on a table with UNIQUE(user_id, habit_id, date): a row of
\* another chat is a conflict too
UpsertEntry_conflict_without_chat(T, seq, chat_id, user_id, habit_id, date, status_int, t) ==
    LET conflict == {r \in T : /\ r.user_id = user_id
                               /\ r.habit_id = habit_id
                               /\ r.date = date}
    IN  IF conflict = {}
        THEN T \cup {[id |-> seq + 1, chat_id |-> chat_id, user_id |-> user_id,
                      habit_id |-> habit_id, date |-> date,
                      status |-> status_int, created_at |-> t,
                      updated_at |-> t]}
        ELSE {IF r \in conflict
              THEN [r EXCEPT !.status = status_int, !.updated_at = t]
              ELSE r : r \in T}

\* INSERT OR REPLACE: the key's row is deleted and a new one inserted
UpsertEntry_or_replace(T, seq, chat_id, user_id, habit_id, date, status_int, t) ==
    (T \ EntryRows(T, chat_id, user_id, habit_id, date))
       \cup {[id |-> seq + 1, chat_id |-> chat_id, user_id |-> user_id,
               habit_id |-> habit_id, date |-> date, status |-> status_int,
               created_at |-> t, updated_at |-> t]}

\* INSERT ... ON CONFLICT(<key>) DO NOTHING
UpsertEntry_do_nothing(T, seq, chat_id, user_id, habit_id, date, status_int, t) ==
    IF EntryRows(T, chat_id, user_id, habit_id, date) = {}
    THEN T \cup {[id |-> seq + 1, chat_id |-> chat_id, user_id |-> user_id,
                  habit_id |-> habit_id, date |-> date, status |-> status_int,
                  created_at |-> t, updated_at |-> t]}
    ELSE T

\* INSERT INTO tracker_entries ... ON CONFLICT(<key>) DO UPDATE
\*   SET status = ?, updated_at = CURRENT_TIMESTAMP
\* id is the AUTOINCREMENT column; created_at takes its DEFAULT.
UpsertEntry(T, seq, chat_id, user_id, habit_id, date, status_int, t) ==
    LET conflict == EntryRows(T, chat_id, user_id, habit_id, date)
    IN  IF conflict = {}
        THEN T \cup {[id |-> seq + 1, chat_id |-> chat_id, user_id |-> user_id,
                      habit_id |-> habit_id, date |-> date,
                      status |-> status_int, created_at |-> t,
                      updated_at |-> t]}
        ELSE {IF r \in conflict
              THEN [r EXCEPT !.status = status_int, !.updated_at = t]
              ELSE r : r \in T}

\* set_tracker_entry without the "status is None" branch
set_tracker_entry_none_as_false(db, chat_id, user_id, habit_id, date, status, t) ==
    LET status_int == IF Truthy(status) THEN 1 ELSE 0
    IN  [db EXCEPT
           !.tracker_entries =
               UpsertEntry(@, db.sqlite_sequence.tracker_entries, chat_id,
                           user_id, habit_id, date, status_int, t),
           !.sqlite_sequence.tracker_entries = @ + 1]

\* set_tracker_entry testing "if not status" in place of "if status is None"
set_tracker_entry_falsy_deletes(db, chat_id, user_id, habit_id, date, status, t) ==
    IF ~Truthy(status)
    THEN [db EXCEPT !.tracker_entries =
                        DeleteEntry(@, chat_id, user_id, habit_id, date)]
    ELSE [db EXCEPT
            !.tracker_entries =
                UpsertEntry(@, db.sqlite_sequence.tracker_entries, chat_id,
                            user_id, habit_id, date, 1, t),
            !.sqlite_sequence.tracker_entries = @ + 1]

\* set_tracker_entry that also inserts a users row for a user_id the chat
\* does not know yet
set_tracker_entry_registers_user(db, chat_id, user_id, habit_id, date, status, t) ==
    IF status = "None"
    THEN [db EXCEPT !.tracker_entries =
                        DeleteEntry(@, chat_id, user_id, habit_id, date)]
    ELSE LET status_int == IF Truthy(status) THEN 1 ELSE 0
             known == \E r \in db.users :
                         r.chat_id = chat_id /\ r.user_id = user_id
         IN  [db EXCEPT
                !.tracker_entries =
                    UpsertEntry(@, db.sqlite_sequence.tracker_entries, chat_id,
                                user_id, habit_id, date, status_int, t),
                !.sqlite_sequence.tracker_entries = @ + 1,
                !.users =
                    IF known THEN @
                    ELSE @ \cup {[id |-> db.sqlite_sequence.users + 1,
                                  chat_id |-> chat_id, user_id |-> user_id,
                                  emoji |-> "", name |-> "", created_at |-> t,
                                  updated_at |-> t]},
                !.sqlite_sequence.users = IF known THEN @ ELSE @ + 1]

\* set_tracker_entry binding the integer the caller passed, without
\* "1 if status else 0"
set_tracker_entry_stores_raw(db, chat_id, user_id, habit_id, date, status, t) ==
    IF status = "None"
    THEN [db EXCEPT !.tracker_entries =
                        DeleteEntry(@, chat_id, user_id, habit_id, date)]
    ELSE LET status_int == IF status = "2" THEN 2
                           ELSE IF Truthy(status) THEN 1 ELSE 0
         IN  [db EXCEPT
                !.tracker_entries =
                    UpsertEntry(@, db.sqlite_sequence.tracker_entries, chat_id,
                                user_id, habit_id, date, status_int, t),
                !.sqlite_sequence.tracker_entries = @ + 1]

\* The statement set_tracker_entry executes on the database image db at
\* time t; an INSERT statement on an AUTOINCREMENT table advances the
\* table's sqlite_sequence row whether it inserts or updates.
set_tracker_entry(db, chat_id, user_id, habit_id, date, status, t) ==
    IF status = "None"
    THEN [db EXCEPT !.tracker_entries =
                        DeleteEntry(@, chat_id, user_id, habit_id, date)]
    ELSE LET status_int == IF Truthy(status) THEN 1 ELSE 0
         IN  [db EXCEPT
                !.tracker_entries =
                    UpsertEntry(@, db.sqlite_sequence.tracker_entries, chat_id,
                                user_id, habit_id, date, status_int, t),
                !.sqlite_sequence.tracker_entries = @ + 1]

\* fetchone() of the key's rows: row["status"], or None without a row
get_tracker_entry(T, chat_id, user_id, habit_id, date) ==
    LET rows == EntryRows(T, chat_id, user_id, habit_id, date)
    IN  IF rows # {} THEN Some((CHOOSE r \in rows : TRUE).status) ELSE None

\* ORDER BY user_id, habit_id, date
EntryBefore(r, s) ==
    \/ r.user_id < s.user_id
    \/ /\ r.user_id = s.user_id
       /\ \/ TextLess(r.habit_id, s.habit_id)
          \/ /\ r.habit_id = s.habit_id
             /\ TextLess(r.date, s.date)

\* The rows of S as the sequence ORDER BY user_id, habit_id, date yields
RECURSIVE OrderEntries(_)
OrderEntries(S) ==
    IF S = {} THEN <<>>
    ELSE LET first == CHOOSE r \in S : \A s \in S : ~EntryBefore(s, r)
         IN  <<first>> \o OrderEntries(S \ {first})

\* WHERE chat_id = ? AND date >= ? AND date < ?
RangeRows_exclusive_end(T, chat_id, date_start, date_end) ==
    {r \in T : /\ r.chat_id = chat_id
               /\ TextLeq(date_start, r.date)
               /\ TextLess(r.date, date_end)}

\* WHERE chat_id = ? AND date >= ? AND date <= ?
RangeRows(T, chat_id, date_start, date_end) ==
    {r \in T : /\ r.chat_id = chat_id
               /\ TextLeq(date_start, r.date)
               /\ TextLeq(r.date, date_end)}

\* [(row["user_id"], row["habit_id"], row["date"], row["status"]) for row in rows]
RowTuples(rows) ==
    [i \in DOMAIN rows |->
        <<rows[i].user_id, rows[i].habit_id, rows[i].date, rows[i].status>>]

\* SELECT user_id, habit_id, date, status ... ORDER BY user_id, habit_id, date
get_tracker_entries_for_date_range(T, chat_id, date_start, date_end) ==
    RowTuples(OrderEntries(RangeRows(T, chat_id, date_start, date_end)))

\* SELECT DISTINCT habit_id ... WHERE chat_id = ? AND user_id = ?
\*   ORDER BY habit_id
RECURSIVE OrderTexts(_)
OrderTexts(S) ==
    IF S = {} THEN <<>>
    ELSE LET first == CHOOSE x \in S : \A y \in S : ~TextLess(y, x)
         IN  <<first>> \o OrderTexts(S \ {first})

\* The query with WHERE user_id = ? alone
get_user_habits_for_chat_any_chat(T, chat_id, user_id) ==
    OrderTexts({r.habit_id : r \in {x \in T : x.user_id = user_id}})

get_user_habits_for_chat(T, chat_id, user_id) ==
    OrderTexts({r.habit_id : r \in {x \in T : /\ x.chat_id = chat_id
                                              /\ x.user_id = user_id}})

\* ORDER BY user_id, habit_id
PairBefore(a, b) ==
    \/ a[1] < b[1]
    \/ a[1] = b[1] /\ TextLess(a[2], b[2])

\* ORDER BY user_id DESC, habit_id DESC
RECURSIVE OrderPairs_descending(_)
OrderPairs_descending(S) ==
    IF S = {} THEN <<>>
    ELSE LET first == CHOOSE a \in S : \A b \in S : ~PairBefore(a, b)
         IN  <<first>> \o OrderPairs_descending(S \ {first})

RECURSIVE OrderPairs(_)
OrderPairs(S) ==
    IF S = {} THEN <<>>
    ELSE LET first == CHOOSE a \in S : \A b \in S : ~PairBefore(b, a)
         IN  <<first>> \o OrderPairs(S \ {first})

\* SELECT DISTINCT user_id, habit_id without the WHERE clause
DistinctPairs_any_chat(T, chat_id) ==
    OrderPairs({<<r.user_id, r.habit_id>> : r \in T})

\* SELECT DISTINCT user_id, habit_id ... WHERE chat_id = ?
DistinctPairs(T, chat_id) ==
    OrderPairs({<<r.user_id, r.habit_id>> : r \in {x \in T : x.chat_id = chat_id}})

\* A Python dict is the sequence of its <<key, value>> items in insertion
\* order.
DictKeys(d) == {d[i][1] : i \in DOMAIN d}

\* result[key] = value on a Python dict: a known key keeps its place
DictSet(d, key, value) ==
    IF key \in DictKeys(d)
    THEN [i \in DOMAIN d |-> IF d[i][1] = key THEN <<key, value>> ELSE d[i]]
    ELSE Append(d, <<key, value>>)

\* The loop with "result[user_id] = [habit_id]" for every row
RECURSIVE GroupHabits_overwrite(_, _)
GroupHabits_overwrite(rows, result) ==
    IF rows = <<>> THEN result
    ELSE LET user_id == Head(rows)[1]
             habit_id == Head(rows)[2]
             started == IF user_id \notin DictKeys(result)
                        THEN Append(result, <<user_id, <<>>>>)
                        ELSE result
             assigned == [i \in DOMAIN started |->
                            IF started[i][1] = user_id
                            THEN <<user_id, <<habit_id>>>>
                            ELSE started[i]]
         IN  GroupHabits_overwrite(Tail(rows), assigned)

\* for row in rows: result.setdefault-and-append, as the loop of
\* get_all_user_habits_for_chat does it
RECURSIVE GroupHabits(_, _)
GroupHabits(rows, result) ==
    IF rows = <<>> THEN result
    ELSE LET user_id == Head(rows)[1]
             habit_id == Head(rows)[2]
             started == IF user_id \notin DictKeys(result)
                        THEN Append(result, <<user_id, <<>>>>)
                        ELSE result
             appended == [i \in DOMAIN started |->
                            IF started[i][1] = user_id
                            THEN <<user_id, Append(started[i][2], habit_id)>>
                            ELSE started[i]]
         IN  GroupHabits(Tail(rows), appended)

get_all_user_habits_for_chat(T, chat_id) ==
    GroupHabits(DistinctPairs(T, chat_id), <<>>)

----------------------------------------------------------------------------
(* get_tracker_data_for_chat *)

\* status_bool = None if status is None else (status == 1), as the Python
\* literal of the value; the column holds 0 or 1 in every row the writes
\* of the module leave
StatusBool(status) == IF status = 1 THEN "True" ELSE "False"

\* The inner loop without its "if": every entry goes into every pair's map
RECURSIVE DateMap_any_pair(_, _, _, _)
DateMap_any_pair(entries, user_id, habit_id, result) ==
    IF entries = <<>> THEN result
    ELSE LET e == Head(entries)
         IN  DateMap_any_pair(Tail(entries), user_id, habit_id,
                              DictSet(result, e[3], StatusBool(e[4])))

\* for user_id_db, habit_id_db, date, status in entries:
\*     if user_id_db == user_id and habit_id_db == habit_id:
\*         result[user_id][habit_id][date] = status_bool
RECURSIVE DateMap(_, _, _, _)
DateMap(entries, user_id, habit_id, result) ==
    IF entries = <<>> THEN result
    ELSE LET e == Head(entries)
         IN  DateMap(Tail(entries), user_id, habit_id,
                     IF e[1] = user_id /\ e[2] = habit_id
                     THEN DictSet(result, e[3], StatusBool(e[4]))
                     ELSE result)

\* for habit_id in habit_list: result[user_id][habit_id] = {} and its fill
RECURSIVE HabitMaps(_, _, _, _)
HabitMaps(habit_list, entries, user_id, result) ==
    IF habit_list = <<>> THEN result
    ELSE HabitMaps(Tail(habit_list), entries, user_id,
                   DictSet(result, Head(habit_list),
                           DateMap(entries, user_id, Head(habit_list), <<>>)))

\* for user_id, habit_list in all_user_habits.items(): result[user_id] = {}
\* and its fill
RECURSIVE TrackerData(_, _, _)
TrackerData(items, entries, result) ==
    IF items = <<>> THEN result
    ELSE TrackerData(Tail(items), entries,
                     DictSet(result, Head(items)[1],
                             HabitMaps(Head(items)[2], entries, Head(items)[1],
                                       <<>>)))

\* get_tracker_data_for_chat when both its reads see the table T
get_tracker_data_for_chat(T, chat_id, date_start, date_end) ==
    LET entries == get_tracker_entries_for_date_range(T, chat_id, date_start,
                                                      date_end)
        all_user_habits == get_all_user_habits_for_chat(T, chat_id)
    IN  TrackerData(all_user_habits, entries, <<>>)

----------------------------------------------------------------------------
(* Tables habits and users *)

\* The statement without its ON CONFLICT clause, on a table without the
\* UNIQUE(chat_id, habit_id) constraint: every call adds a row
set_habit_plain_insert(db, chat_id, habit_id, emoji, name, t) ==
    [db EXCEPT
       !.habits = @ \cup {[id |-> db.sqlite_sequence.habits + 1,
                           chat_id |-> chat_id, habit_id |-> habit_id,
                           emoji |-> emoji, name |-> name, created_at |-> t]},
       !.sqlite_sequence.habits = @ + 1]

\* INSERT INTO habits (chat_id, habit_id, emoji, name) ...
\*   ON CONFLICT(chat_id, habit_id) DO UPDATE SET emoji = ?, name = ?
set_habit(db, chat_id, habit_id, emoji, name, t) ==
    LET H == db.habits
        conflict == {r \in H : r.chat_id = chat_id /\ r.habit_id = habit_id}
    IN  [db EXCEPT
           !.habits =
               IF conflict = {}
               THEN H \cup {[id |-> db.sqlite_sequence.habits + 1,
                             chat_id |-> chat_id, habit_id |-> habit_id,
                             emoji |-> emoji, name |-> name, created_at |-> t]}
               ELSE {IF r \in conflict
                     THEN [r EXCEPT !.emoji = emoji, !.name = name]
                     ELSE r : r \in H},
           !.sqlite_sequence.habits = @ + 1]

\* SELECT emoji, name FROM habits WHERE chat_id = ? AND habit_id = ?
get_habit(H, chat_id, habit_id) ==
    LET rows == {r \in H : r.chat_id = chat_id /\ r.habit_id = habit_id}
    IN  IF rows # {}
        THEN LET row == CHOOSE r \in rows : TRUE
             IN  Some([emoji |-> row.emoji, name |-> row.name])
        ELSE None

\* The SELECT without its ORDER BY clause: rows come in rowid order
RECURSIVE OrderHabitRows_by_rowid(_)
OrderHabitRows_by_rowid(S) ==
    IF S = {} THEN <<>>
    ELSE LET first == CHOOSE r \in S : \A q \in S : r.id <= q.id
         IN  <<first>> \o OrderHabitRows_by_rowid(S \ {first})

\* ORDER BY habit_id
RECURSIVE OrderHabitRows(_)
OrderHabitRows(S) ==
    IF S = {} THEN <<>>
    ELSE LET first == CHOOSE r \in S :
                         \A q \in S : ~TextLess(q.habit_id, r.habit_id)
         IN  <<first>> \o OrderHabitRows(S \ {first})

\* for row in rows: result[row["habit_id"]] = {"emoji": ..., "name": ...}
RECURSIVE HabitsDict(_, _)
HabitsDict(rows, result) ==
    IF rows = <<>> THEN result
    ELSE HabitsDict(Tail(rows),
                    DictSet(result, Head(rows).habit_id,
                            [emoji |-> Head(rows).emoji,
                             name |-> Head(rows).name]))

\* SELECT habit_id, emoji, name FROM habits WHERE chat_id = ?
\*   ORDER BY habit_id
get_all_habits_for_chat(H, chat_id) ==
    HabitsDict(OrderHabitRows({r \in H : r.chat_id = chat_id}), <<>>)

\* The statement with DO UPDATE SET emoji = ?, name = ? alone, as set_habit
\* has it: an update leaves updated_at as it was
set_user_keeps_updated_at(db, chat_id, user_id, emoji, name, t) ==
    LET U == db.users
        conflict == {r \in U : r.chat_id = chat_id /\ r.user_id = user_id}
    IN  [db EXCEPT
           !.users =
               IF conflict = {}
               THEN U \cup {[id |-> db.sqlite_sequence.users + 1,
                             chat_id |-> chat_id, user_id |-> user_id,
                             emoji |-> emoji, name |-> name, created_at |-> t,
                             updated_at |-> t]}
               ELSE {IF r \in conflict
                     THEN [r EXCEPT !.emoji = emoji, !.name = name]
                     ELSE r : r \in U},
           !.sqlite_sequence.users = @ + 1]

\* INSERT INTO users (chat_id, user_id, emoji, name, updated_at) ...
\*   ON CONFLICT(chat_id, user_id)
\*   DO UPDATE SET emoji = ?, name = ?, updated_at = CURRENT_TIMESTAMP
set_user(db, chat_id, user_id, emoji, name, t) ==
    LET U == db.users
        conflict == {r \in U : r.chat_id = chat_id /\ r.user_id = user_id}
    IN  [db EXCEPT
           !.users =
               IF conflict = {}
               THEN U \cup {[id |-> db.sqlite_sequence.users + 1,
                             chat_id |-> chat_id, user_id |-> user_id,
                             emoji |-> emoji, name |-> name, created_at |-> t,
                             updated_at |-> t]}
               ELSE {IF r \in conflict
                     THEN [r EXCEPT !.emoji = emoji, !.name = name,
                                    !.updated_at = t]
                     ELSE r : r \in U},
           !.sqlite_sequence.users = @ + 1]

\* SELECT emoji, name FROM users WHERE chat_id = ? AND user_id = ?
get_user(U, chat_id, user_id) ==
    LET rows == {r \in U : r.chat_id = chat_id /\ r.user_id = user_id}
    IN  IF rows # {}
        THEN LET row == CHOOSE r \in rows : TRUE
             IN  Some([emoji |-> row.emoji, name |-> row.name])
        ELSE None

\* ORDER BY user_id
RECURSIVE OrderUserRows(_)
OrderUserRows(S) ==
    IF S = {} THEN <<>>
    ELSE LET first == CHOOSE r \in S : \A q \in S : r.user_id <= q.user_id
         IN  <<first>> \o OrderUserRows(S \ {first})

\* for row in rows: result[row["user_id"]] = {"emoji": ..., "name": ...}
RECURSIVE UsersDict(_, _)
UsersDict(rows, result) ==
    IF rows = <<>> THEN result
    ELSE UsersDict(Tail(rows),
                   DictSet(result, Head(rows).user_id,
                           [emoji |-> Head(rows).emoji,
                            name |-> Head(rows).name]))

\* SELECT user_id, emoji, name FROM users WHERE chat_id = ?
\*   ORDER BY user_id
get_all_users_for_chat(U, chat_id) ==
    UsersDict(OrderUserRows({r \in U : r.chat_id = chat_id}), <<>>)

----------------------------------------------------------------------------
(* Callers.  Every write operation opens its own connection              *)
(* (async with aiosqlite.connect), executes one statement, which opens a *)
(* transaction and takes the database's write lock, and commits.  An     *)
(* exception leaves the async with block, which closes the connection   *)
(* and so rolls the open transaction back, and reaches the caller.       *)

NoCall == [op |-> "none"]

\* No get_tracker_data_for_chat call has been made
NoFetch ==
    [pc |-> "idle", chat_id |-> 0, date_start |-> <<>>, date_end |-> <<>>,
     entries |-> <<>>, seen |-> <<>>, result |-> <<>>]

\* The committed database, as a connection sees it
Database ==
    [tracker_entries |-> tracker_entries, habits |-> habits, users |-> users,
     sqlite_sequence |-> sqlite_sequence]

\* data.mark_habit hands its arguments to set_tracker_entry
mark_habit(db, chat_id, user_id, habit_id, date, status, t) ==
    set_tracker_entry(db, chat_id, user_id, habit_id, date, status, t)

\* db.execute(...) of the call a, at time t
Statement(db, a, t) ==
    CASE a.op = "set_tracker_entry" ->
            set_tracker_entry(db, a.chat_id, a.user_id, a.habit_id, a.date,
                              a.status, t)
      [] a.op = "mark_habit" ->
            mark_habit(db, a.chat_id, a.user_id, a.habit_id, a.date,
                       a.status, t)
      [] a.op = "set_habit" ->
            set_habit(db, a.chat_id, a.habit_id, a.emoji, a.name, t)
      [] a.op = "set_user" ->
            set_user(db, a.chat_id, a.user_id, a.emoji, a.name, t)

\* A connection in autocommit mode: the statement's effect outlives it
Rollback_keeps(db, pending) == pending

\* What a connection that closes with an open transaction leaves behind
Rollback(db, pending) == db

----------------------------------------------------------------------------
(* Inputs *)

Statuses == {"None", "True", "False"}

\* Habit ids "a" and "b"
HabitA == <<97>>
HabitB == <<98>>

\* Three consecutive days across a month's end
Day1 == strftime(2024, 1, 30)
Day2 == strftime(2024, 1, 31)
Day3 == strftime(2024, 2, 1)
Dates == {Day1, Day2, Day3}

Key(chat_id, user_id, habit_id, date) ==
    [chat_id |-> chat_id, user_id |-> user_id, habit_id |-> habit_id,
     date |-> date]

\* The keys the callers write: one pair on three days, a second habit and a
\* second user of the same chat, and a second chat in which user, habit and
\* date coincide with the first one's
EntryKeys ==
    {Key(1, 1, HabitA, Day1), Key(1, 1, HabitA, Day2), Key(1, 1, HabitA, Day3),
     Key(1, 1, HabitB, Day2), Key(1, 2, HabitB, Day1), Key(2, 1, HabitA, Day2)}

Chats == {k.chat_id : k \in EntryKeys}
Users == {k.user_id : k \in EntryKeys}
HabitIds == {k.habit_id : k \in EntryKeys}

EntryCall(k, status) ==
    [op |-> "set_tracker_entry", chat_id |-> k.chat_id, user_id |-> k.user_id,
     habit_id |-> k.habit_id, date |-> k.date, status |-> status]

EntryCalls == {EntryCall(k, status) : k \in EntryKeys, status \in Statuses}

HabitCall(chat_id, habit_id, emoji, name) ==
    [op |-> "set_habit", chat_id |-> chat_id, habit_id |-> habit_id,
     emoji |-> emoji, name |-> name]

HabitCalls ==
    {HabitCall(1, HabitA, "e1", "n1"), HabitCall(1, HabitA, "e2", "n2"),
     HabitCall(2, HabitA, "e1", "n1")}

UserCall(chat_id, user_id, emoji, name) ==
    [op |-> "set_user", chat_id |-> chat_id, user_id |-> user_id,
     emoji |-> emoji, name |-> name]

UserCalls ==
    {UserCall(1, 1, "e1", "n1"), UserCall(1, 1, "e2", "n2"),
     UserCall(2, 1, "e1", "n1")}

\* Calls that completed before the callers of the model start
SeedScripts ==
    { <<>>,
      <<EntryCall(Key(1, 1, HabitA, Day1), "False"),
        EntryCall(Key(1, 1, HabitA, Day3), "True"),
        EntryCall(Key(1, 2, HabitB, Day1), "False"),
        EntryCall(Key(2, 1, HabitA, Day2), "True")>>,
      <<EntryCall(Key(1, 1, HabitB, Day2), "True"),
        EntryCall(Key(1, 1, HabitA, Day2), "False"),
        EntryCall(Key(1, 1, HabitB, Day2), "None"),
        EntryCall(Key(1, 2, HabitB, Day1), "True"),
        EntryCall(Key(2, 1, HabitA, Day2), "False")>>,
      <<HabitCall(1, HabitB, "e1", "n1"), HabitCall(1, HabitA, "e1", "n1"),
        HabitCall(2, HabitA, "e2", "n2"), HabitCall(1, HabitB, "e2", "n2"),
        UserCall(1, 2, "e1", "n1"), UserCall(1, 1, "e1", "n1"),
        UserCall(2, 1, "e2", "n2"), UserCall(1, 2, "e2", "n2"),
        EntryCall(Key(1, 1, HabitA, Day2), "True"),
        EntryCall(Key(2, 1, HabitA, Day2), "False")>> }

EmptyDatabase ==
    [tracker_entries |-> {}, habits |-> {}, users |-> {},
     sqlite_sequence |-> [tracker_entries |-> 0, habits |-> 0, users |-> 0]]

RECURSIVE Replay(_, _)
Replay(db, seed) ==
    IF seed = <<>> THEN db
    ELSE Replay(Statement(db, Head(seed), 0), Tail(seed))

----------------------------------------------------------------------------
(* The bot of main.py at its start *)

\* bot_id = bot_info.id, set by main() before the first update is handled
bot_id == 1

\* The chats the bot is in, and message.chat.type of each
BotChats == {1, 2, 3}

ChatType(chat_id) ==
    CASE chat_id = 1 -> "group"
      [] chat_id = 2 -> "supergroup"
      [] OTHER -> "private"

\* No update has been handled
NoUpdate ==
    [command |-> "none", chat_id |-> 0, reply_to_message |-> <<>>,
     text |-> <<>>]

NoRun ==
    [update |-> NoUpdate, pinned_data |-> <<>>, message_age |-> <<>>,
     calls |-> <<>>]

\* pinned_messages = {}: no chat has an entry; no message is known
InitBot ==
    /\ pinned_messages = [c \in BotChats |-> <<>>]
    /\ messages = <<>>
    /\ pinned = [c \in BotChats |-> 0]
    /\ clock = 0
    /\ last = NoRun

\* The database init_database created, after the calls of a seed script
InitDatabase ==
    \E seed \in SeedScripts :
       LET db == Replay(EmptyDatabase, seed)
       IN  /\ tracker_entries = db.tracker_entries
           /\ habits = db.habits
           /\ users = db.users
           /\ sqlite_sequence = db.sqlite_sequence

InitCallers ==
    /\ now = 0
    /\ pc = [p \in Procs |-> "idle"]
    /\ call = [p \in Procs |-> NoCall]
    /\ writer = 0
    /\ txn = None
    /\ outcome = [p \in Procs |-> "none"]
    /\ calls = 0
    /\ ip = [p \in Procs |-> 1]
    /\ fetch = NoFetch
    /\ InitBot

\* Callers that make any calls, in any order
Init ==
    /\ InitDatabase
    /\ InitCallers
    /\ script = [p \in Procs |-> <<>>]

\* The caller p enters the write operation a: aiosqlite.connect(DB_PATH)
Connect(p, a) ==
    /\ pc[p] = "idle"
    /\ pc' = [pc EXCEPT ![p] = "connected"]
    /\ call' = [call EXCEPT ![p] = a]
    /\ outcome' = [outcome EXCEPT ![p] = "none"]
    /\ UNCHANGED <<tracker_entries, habits, users, sqlite_sequence, now,
                   writer, txn, script, fetch, botVars>>

\* A call from outside, with any arguments
Call(p, a) ==
    /\ calls < MaxCalls
    /\ calls' = calls + 1
    /\ Connect(p, a)
    /\ UNCHANGED ip

\* The next call of p's program, made once the previous one has returned
Issue(p) ==
    /\ ip[p] <= Len(script[p])
    /\ outcome[p] # "error"
    /\ ip' = [ip EXCEPT ![p] = @ + 1]
    /\ Connect(p, script[p][ip[p]])
    /\ UNCHANGED calls

\* await db.execute(...): waits while another connection holds the write
\* lock, then runs the statement inside a new transaction
Execute(p) ==
    /\ pc[p] = "connected"
    /\ writer = 0
    /\ writer' = p
    /\ txn' = Some(Statement(Database, call[p], now))
    /\ pc' = [pc EXCEPT ![p] = "executed"]
    /\ UNCHANGED <<tracker_entries, habits, users, sqlite_sequence, now,
                   call, outcome, calls, script, ip, fetch, botVars>>

\* await db.commit(), and the normal return
Commit(p) ==
    /\ pc[p] = "executed"
    /\ writer = p
    /\ tracker_entries' = txn[1].tracker_entries
    /\ habits' = txn[1].habits
    /\ users' = txn[1].users
    /\ sqlite_sequence' = txn[1].sqlite_sequence
    /\ writer' = 0
    /\ txn' = None
    /\ pc' = [pc EXCEPT ![p] = "idle"]
    /\ call' = [call EXCEPT ![p] = NoCall]
    /\ outcome' = [outcome EXCEPT ![p] = "ok"]
    /\ fetch' = IF fetch.pc = "fetched"
                   /\ txn[1].tracker_entries # tracker_entries
                THEN [fetch EXCEPT !.seen = Append(@, txn[1].tracker_entries)]
                ELSE fetch
    /\ UNCHANGED <<now, calls, script, ip, botVars>>

\* The storage fails (connect, execute or commit raises): the exception
\* leaves the async with block and the function; nothing catches it
Raise(p) ==
    /\ pc[p] \in {"connected", "executed"}
    /\ LET db == IF writer = p THEN Rollback(Database, txn[1]) ELSE Database
       IN  /\ tracker_entries' = db.tracker_entries
           /\ habits' = db.habits
           /\ users' = db.users
           /\ sqlite_sequence' = db.sqlite_sequence
    /\ writer' = IF writer = p THEN 0 ELSE writer
    /\ txn' = IF writer = p THEN None ELSE txn
    /\ pc' = [pc EXCEPT ![p] = "idle"]
    /\ call' = [call EXCEPT ![p] = NoCall]
    /\ outcome' = [outcome EXCEPT ![p] = "error"]
    /\ UNCHANGED <<now, calls, script, ip, fetch, botVars>>

\* Time passes
Tick ==
    /\ now < MaxClock
    /\ now' = now + 1
    /\ UNCHANGED <<tracker_entries, habits, users, sqlite_sequence, pc, call,
                   writer, txn, outcome, calls, script, ip, fetch, botVars>>

\* The variables a get_tracker_data_for_chat call leaves alone
NotFetch ==
    <<tracker_entries, habits, users, sqlite_sequence, now, pc, call, writer,
      txn, outcome, calls, script, ip, botVars>>

\* get_tracker_data_for_chat(chat_id, date_start, date_end), up to the return
\* of its first read:
\*   entries = await get_tracker_entries_for_date_range(...)
ReadEntries(chat_id, date_start, date_end) ==
    /\ fetch.pc # "fetched"
    /\ fetch' = [pc |-> "fetched", chat_id |-> chat_id,
                 date_start |-> date_start, date_end |-> date_end,
                 entries |-> get_tracker_entries_for_date_range(
                                 tracker_entries, chat_id, date_start, date_end),
                 seen |-> <<tracker_entries>>, result |-> <<>>]
    /\ UNCHANGED NotFetch

\* The second read inside the transaction of the first one: it sees the
\* table the first read saw
ReadPairs_in_one_transaction ==
    /\ fetch.pc = "fetched"
    /\ fetch' = [fetch EXCEPT
                    !.pc = "done",
                    !.result =
                        TrackerData(get_all_user_habits_for_chat(
                                        fetch.seen[1], fetch.chat_id),
                                    fetch.entries, <<>>)]
    /\ UNCHANGED NotFetch

\* The rest of get_tracker_data_for_chat:
\*   all_user_habits = await get_all_user_habits_for_chat(chat_id)
\* on a connection of its own, the loops that build result, and the return
ReadPairs ==
    /\ fetch.pc = "fetched"
    /\ fetch' = [fetch EXCEPT
                    !.pc = "done",
                    !.result =
                        TrackerData(get_all_user_habits_for_chat(
                                        tracker_entries, fetch.chat_id),
                                    fetch.entries, <<>>)]
    /\ UNCHANGED NotFetch

\* One of the two reads raises: the exception leaves get_tracker_data_for_chat
FetchRaise ==
    /\ fetch.pc # "failed"
    /\ fetch' = [NoFetch EXCEPT !.pc = "failed"]
    /\ UNCHANGED NotFetch

Next ==
    \/ \E p \in Procs : \E a \in EntryCalls \cup HabitCalls \cup UserCalls :
          Call(p, a)
    \/ \E p \in Procs : Execute(p)
    \/ \E p \in Procs : Commit(p)
    \/ \E p \in Procs : Raise(p)

Spec == Init /\ [][Next]_vars

\* One caller alone, whose calls follow one another
NextSolo ==
    \/ \E a \in EntryCalls \cup HabitCalls \cup UserCalls : Call(1, a)
    \/ Execute(1)
    \/ Commit(1)
    \/ Raise(1)

SpecSolo == Init /\ [][NextSolo]_vars

\* One caller alone, while time passes
NextClock ==
    \/ NextSolo
    \/ Tick

SpecClock == Init /\ [][NextClock]_vars

\* The date range the report is fetched for: the last two days
ReportRange == <<Day2, Day3>>

\* The writes that run beside the fetches: those of the first chat
ReportCalls == {a \in EntryCalls : a.chat_id = 1}

\* One caller's writes, and fetches of the report's data that run beside them
NextReport ==
    \/ \E a \in ReportCalls : Call(1, a)
    \/ Execute(1)
    \/ Commit(1)
    \/ Raise(1)
    \/ \E c \in Chats : ReadEntries(c, ReportRange[1], ReportRange[2])
    \/ ReadPairs
    \/ FetchRaise

SpecReport == Init /\ [][NextReport]_vars

----------------------------------------------------------------------------
(* The round trip of marks on one key: Done, Unknown, NotDone *)

RoundTrip(k) ==
    <<EntryCall(k, "True"), EntryCall(k, "None"), EntryCall(k, "False")>>

InitRoundTrip ==
    /\ InitDatabase
    /\ InitCallers
    /\ \E k \in EntryKeys :
          script = [p \in Procs |-> IF p = 1 THEN RoundTrip(k) ELSE <<>>]

NextRoundTrip ==
    \/ \E p \in Procs : Issue(p)
    \/ \E p \in Procs : Execute(p)
    \/ \E p \in Procs : Commit(p)
    \/ \E p \in Procs : Raise(p)
    \/ Tick

SpecRoundTrip == InitRoundTrip /\ [][NextRoundTrip]_vars

----------------------------------------------------------------------------
(* Vocabulary of the properties *)

\* The step is the successful return of p's call
Committing(p) == pc[p] = "executed" /\ pc'[p] = "idle" /\ outcome'[p] = "ok"

\* The step is p's call ending in an exception
Raising(p) == pc[p] # "idle" /\ pc'[p] = "idle" /\ outcome'[p] = "error"

IsEntryCall(a) == a.op = "set_tracker_entry"

SameKey(a, b) ==
    /\ a.chat_id = b.chat_id
    /\ a.user_id = b.user_id
    /\ a.habit_id = b.habit_id
    /\ a.date = b.date

\* The tri-state value a stored status stands for
Unknown == None
Done == Some(1)
NotDone == Some(0)

getEntry(T, k) == get_tracker_entry(T, k.chat_id, k.user_id, k.habit_id, k.date)
RowsOf(T, k) == EntryRows(T, k.chat_id, k.user_id, k.habit_id, k.date)

\* The calendar day a well-formed date string denotes, as a number that
\* grows with the calendar
DigitAt(text, i) == text[i] - 48

CalendarDay(date) ==
    10000 * (1000 * DigitAt(date, 1) + 100 * DigitAt(date, 2)
                + 10 * DigitAt(date, 3) + DigitAt(date, 4))
        + 100 * (10 * DigitAt(date, 6) + DigitAt(date, 7))
        + (10 * DigitAt(date, 9) + DigitAt(date, 10))

\* Every pair of dates a caller may pass as a range
Ranges == Dates \X Dates

----------------------------------------------------------------------------
(* Properties of the tracker entries *)

\* C1: when a set_tracker_entry call with status None returns, get_tracker_entry
\* of its key yields None, and no tuple of the key is in
\* get_tracker_entries_for_date_range for any range that covers its date.
C1_UnknownReadsBack ==
    [][\A p \in Procs :
          (Committing(p) /\ IsEntryCall(call[p]) /\ call[p].status = "None") =>
             LET a == call[p]
             IN  /\ getEntry(tracker_entries', a) = Unknown
                 /\ \A rg \in Ranges :
                       (CalendarDay(rg[1]) <= CalendarDay(a.date)
                           /\ CalendarDay(a.date) <= CalendarDay(rg[2])) =>
                          LET listed == get_tracker_entries_for_date_range(
                                            tracker_entries', a.chat_id, rg[1], rg[2])
                          IN  \A i \in DOMAIN listed :
                                 <<listed[i][1], listed[i][2], listed[i][3]>>
                                    # <<a.user_id, a.habit_id, a.date>>]_vars

\* A call with status None has deleted, in its transaction, the row the
\* database holds for its key
C1_Witness ==
    \E p \in Procs :
       /\ pc[p] = "executed"
       /\ IsEntryCall(call[p])
       /\ call[p].status = "None"
       /\ RowsOf(tracker_entries, call[p]) # {}
       /\ RowsOf(txn[1].tracker_entries, call[p]) = {}

\* C2: when a set_tracker_entry call with status True or False returns,
\* get_tracker_entry of its key yields that value; the table never holds two
\* rows of one key; and a row shows a value only by the return of a call that
\* wrote this value to its key.
C2_UpsertReadsBackOneRow ==
    /\ [](\A r, q \in tracker_entries : SameKey(r, q) => r = q)
    /\ [][/\ \A p \in Procs :
               (Committing(p) /\ IsEntryCall(call[p])
                   /\ call[p].status \in {"True", "False"}) =>
                  /\ getEntry(tracker_entries', call[p])
                        = (IF call[p].status = "True" THEN Done ELSE NotDone)
                  /\ Cardinality(RowsOf(tracker_entries', call[p])) = 1
          /\ \A r \in tracker_entries' :
               (\A q \in tracker_entries : SameKey(q, r) => q.status # r.status) =>
                  \E p \in Procs :
                     /\ Committing(p)
                     /\ IsEntryCall(call[p])
                     /\ SameKey(call[p], r)
                     /\ call[p].status = (IF r.status = 1 THEN "True" ELSE "False")
       ]_vars

\* A call overwrites, in its transaction, the opposite value of its key
C2_Witness ==
    \E p \in Procs :
       /\ pc[p] = "executed"
       /\ IsEntryCall(call[p])
       /\ call[p].status = "False"
       /\ getEntry(tracker_entries, call[p]) = Done
       /\ getEntry(txn[1].tracker_entries, call[p]) = NotDone

\* The scripted caller has made all its calls and the last one has returned
RoundTripDone == ip[1] = 4 /\ pc[1] = "idle" /\ outcome[1] = "ok"

\* C3: after the calls Done, Unknown, NotDone on one key, from any earlier
\* state of the key, get_tracker_entry yields NotDone and the key has exactly
\* one row.
C3_RoundTripEndsNotDone ==
    RoundTripDone =>
       /\ getEntry(tracker_entries, script[1][3]) = NotDone
       /\ Cardinality(RowsOf(tracker_entries, script[1][3])) = 1

\* The round trip has run to its end on the database that already held
\* rows, among them one of another day of the same user and habit
C3_Witness ==
    /\ RoundTripDone
    /\ \E r \in tracker_entries :
          /\ r.chat_id = script[1][3].chat_id
          /\ r.user_id = script[1][3].user_id
          /\ r.habit_id = script[1][3].habit_id
          /\ r.date # script[1][3].date

\* The habit list of user_id in the dict d holds habit_id
HasPair(d, user_id, habit_id) ==
    \E i \in DOMAIN d :
       /\ d[i][1] = user_id
       /\ \E j \in DOMAIN d[i][2] : d[i][2][j] = habit_id

\* C4: get_all_user_habits_for_chat(chat) holds (u, h) exactly when the
\* table has a row of (chat, u, h) at some date.
C4_PairsIffRowExists ==
    \A c \in Chats, u \in Users, h \in HabitIds :
       HasPair(get_all_user_habits_for_chat(tracker_entries, c), u, h)
          <=> (\E r \in tracker_entries :
                  r.chat_id = c /\ r.user_id = u /\ r.habit_id = h)

\* A call with status None has deleted, in its transaction, the last row of
\* a pair whose only row lay outside the range of the last two days: the
\* pair was listed before and is not listed in the transaction's image,
\* while another user of the chat keeps rows
C4_Witness ==
    \E p \in Procs :
       /\ pc[p] = "executed"
       /\ IsEntryCall(call[p])
       /\ call[p].status = "None"
       /\ call[p].date = Day1
       /\ HasPair(get_all_user_habits_for_chat(tracker_entries, call[p].chat_id),
                  call[p].user_id, call[p].habit_id)
       /\ ~HasPair(get_all_user_habits_for_chat(txn[1].tracker_entries,
                                                call[p].chat_id),
                   call[p].user_id, call[p].habit_id)
       /\ \E q \in tracker_entries :
             q.chat_id = call[p].chat_id /\ q.user_id # call[p].user_id

\* The order of (user_id, habit_id, date), dates by the calendar
TupleBefore(a, b) ==
    \/ a[1] < b[1]
    \/ /\ a[1] = b[1]
       /\ \/ TextLess(a[2], b[2])
          \/ a[2] = b[2] /\ CalendarDay(a[3]) < CalendarDay(b[3])

\* C5: get_tracker_entries_for_date_range(chat, date_start, date_end) lists
\* exactly the chat's rows with date_start <= date <= date_end, each once, in
\* ascending order of (user_id, habit_id, date).
C5_RangeListExactAndOrdered ==
    \A c \in Chats, rg \in Ranges :
       \A listed \in {get_tracker_entries_for_date_range(tracker_entries, c,
                                                        rg[1], rg[2])} :
          LET wanted == {r \in tracker_entries :
                            /\ r.chat_id = c
                            /\ CalendarDay(rg[1]) <= CalendarDay(r.date)
                            /\ CalendarDay(r.date) <= CalendarDay(rg[2])}
          IN  /\ {listed[i] : i \in DOMAIN listed}
                    = {<<r.user_id, r.habit_id, r.date, r.status>> : r \in wanted}
              /\ Len(listed) = Cardinality(wanted)
              /\ \A i, j \in DOMAIN listed :
                    i < j => TupleBefore(listed[i], listed[j])

\* A range from the first day to the second lists three rows of the chat, of
\* two users, its bounds included, and leaves out a row of the third day and
\* a row of the other chat
C5_Witness ==
    LET listed == get_tracker_entries_for_date_range(tracker_entries, 1, Day1, Day2)
    IN  /\ Len(listed) = 3
        /\ \E i, j \in DOMAIN listed :
              /\ listed[i][3] = Day1
              /\ listed[j][3] = Day2
              /\ listed[i][1] # listed[j][1]
        /\ \E r \in tracker_entries : r.chat_id = 1 /\ r.date = Day3
        /\ \E r \in tracker_entries : r.chat_id = 2 /\ r.date = Day2

----------------------------------------------------------------------------
(* Properties of concurrent and failing calls *)

\* The tri-state value a status argument asks for
Expected(status) ==
    IF status = "None" THEN Unknown
    ELSE IF status = "True" THEN Done ELSE NotDone

\* q's call is in progress and writes the key of a
InFlightOn(q, a) ==
    pc[q] # "idle" /\ IsEntryCall(call[q]) /\ SameKey(call[q], a)

Values(T) ==
    {<<r.chat_id, r.user_id, r.habit_id, r.date, r.status>> : r \in T}

\* The table after the statement of the call a, then that of the call b
InOrder(a, b) ==
    Statement(Statement(Database, a, now), b, now).tracker_entries

\* C7: the return of a set_tracker_entry call leaves the rows of every other
\* key, and tables habits and users, as they were; and two calls in progress
\* on different keys give the same keys and values in whichever order their
\* statements run.
C7_OtherKeysUntouched ==
    /\ [][\A p \in Procs :
             (Committing(p) /\ IsEntryCall(call[p])) =>
                /\ {r \in tracker_entries' : ~SameKey(r, call[p])}
                      = {r \in tracker_entries : ~SameKey(r, call[p])}
                /\ habits' = habits
                /\ users' = users
         ]_vars
    /\ [](\A p, q \in Procs :
             (/\ pc[p] # "idle" /\ IsEntryCall(call[p])
              /\ pc[q] # "idle" /\ IsEntryCall(call[q])
              /\ ~SameKey(call[p], call[q])) =>
                Values(InOrder(call[p], call[q]))
                   = Values(InOrder(call[q], call[p])))

\* Two calls are in progress on two days of one user and habit; the one
\* holding the write lock deletes its day's row while the other day has a row
C7_Witness ==
    \E p, q \in Procs :
       /\ pc[p] = "executed"
       /\ pc[q] = "connected"
       /\ IsEntryCall(call[p])
       /\ IsEntryCall(call[q])
       /\ call[p].status = "None"
       /\ call[p].chat_id = call[q].chat_id
       /\ call[p].user_id = call[q].user_id
       /\ call[p].habit_id = call[q].habit_id
       /\ call[p].date # call[q].date
       /\ RowsOf(tracker_entries, call[p]) # {}
       /\ RowsOf(tracker_entries, call[q]) # {}
       /\ habits = {}

\* The step ends p's call
Returning(p) == pc[p] # "idle" /\ pc'[p] = "idle"

\* C8: a call ends either with its one statement applied whole and the caller
\* told so, or with an error at the caller and the three tables as before
\* the call; after it nothing of the call is in progress, and no step but
\* the end of a call changes the database.
C8_FailedCallChangesNothing ==
    [][/\ \A p \in Procs :
             Returning(p) =>
                /\ outcome'[p] \in {"ok", "error"}
                /\ outcome'[p] = "error" =>
                      /\ tracker_entries' = tracker_entries
                      /\ habits' = habits
                      /\ users' = users
                /\ outcome'[p] = "ok" =>
                      \E t \in 0..now : Database' = Statement(Database, call[p], t)
                /\ call'[p] = NoCall
                /\ writer' # p
       /\ (\A p \in Procs : ~Returning(p)) => Database' = Database
      ]_vars

\* A set_habit call holds a transaction that changes table habits, over a
\* database with tracker rows: the storage may fail at this point
C8_Witness ==
    \E p \in Procs :
       /\ pc[p] = "executed"
       /\ call[p].op = "set_habit"
       /\ txn[1].habits # habits
       /\ tracker_entries # {}

----------------------------------------------------------------------------
(* Calls with arguments outside the documented domains *)

\* f"{y}-{m}-{d}": a date string without zero padding
Unpadded(y, m, d) == Pad(y, 4) \o <<45>> \o Pad(m, 1) \o <<45>> \o Pad(d, 1)

\* The empty habit id ""
EmptyText == <<>>

\* Python values a caller can pass for status beside None, True and False
OtherValues == {"2", "0", "'no'"}

ArgCalls ==
    [op : {"set_tracker_entry", "mark_habit"}, chat_id : {1}, user_id : {1},
     habit_id : {HabitA}, date : {Day2, Unpadded(2024, 2, 1)},
     status : Statuses \cup OtherValues]
    \cup
    {HabitCall(c, h, "e1", "n1") : c \in {1, 2}, h \in {EmptyText, HabitA}}

NextArgs ==
    \/ \E p \in Procs : \E a \in ArgCalls : Call(p, a)
    \/ \E p \in Procs : Execute(p)
    \/ \E p \in Procs : Commit(p)
    \/ \E p \in Procs : Raise(p)

SpecArgs == Init /\ [][NextArgs]_vars

\* A string of the form YYYY-MM-DD with a month 01..12 and a day 01..31
WellFormedDate(date) ==
    /\ Len(date) = 10
    /\ date[5] = 45
    /\ date[8] = 45
    /\ \A i \in {1, 2, 3, 4, 6, 7, 9, 10} : date[i] \in 48..57
    /\ 10 * DigitAt(date, 6) + DigitAt(date, 7) \in 1..12
    /\ 10 * DigitAt(date, 9) + DigitAt(date, 10) \in 1..31

\* C9: a set_habit call with an empty habit_id ends in an error and leaves
\* table habits as it was.
C9_EmptyHabitIdRejected ==
    [][\A p \in Procs :
          (Returning(p) /\ call[p].op = "set_habit"
              /\ call[p].habit_id = EmptyText) =>
             /\ outcome'[p] = "error"
             /\ habits' = habits
      ]_vars

\* C10: a set_tracker_entry or mark_habit call whose status is none of None,
\* True, False, or whose date is not a well-formed YYYY-MM-DD, ends in an
\* error and leaves table tracker_entries as it was; every stored date is
\* well-formed.
C10_BadEntryArgumentsRejected ==
    /\ [](\A r \in tracker_entries : WellFormedDate(r.date))
    /\ [][\A p \in Procs :
             (Returning(p) /\ call[p].op \in {"set_tracker_entry", "mark_habit"}
                 /\ (call[p].status \notin Statuses
                        \/ ~WellFormedDate(call[p].date))) =>
                /\ outcome'[p] = "error"
                /\ tracker_entries' = tracker_entries
         ]_vars

----------------------------------------------------------------------------
(* Properties of tables habits and users *)

IsHabitCall(a) == a.op = "set_habit"
IsUserCall(a) == a.op = "set_user"

HabitRows(H, chat_id, habit_id) ==
    {r \in H : r.chat_id = chat_id /\ r.habit_id = habit_id}

UserRows(U, chat_id, user_id) ==
    {r \in U : r.chat_id = chat_id /\ r.user_id = user_id}

\* C11: table habits never holds two rows of one (chat_id, habit_id); when a
\* set_habit call returns, its key has exactly one row and get_habit yields
\* the call's (emoji, name); the same call made again would leave table
\* habits as it is; and no step but the return of a set_habit call changes
\* the table, so get_habit yields the values of the most recent call.
C11_HabitUpsertIdempotent ==
    /\ [](\A r, q \in habits :
             (r.chat_id = q.chat_id /\ r.habit_id = q.habit_id) => r = q)
    /\ [][/\ \A p \in Procs :
               (Committing(p) /\ IsHabitCall(call[p])) =>
                  LET a == call[p]
                  IN  /\ Cardinality(HabitRows(habits', a.chat_id, a.habit_id)) = 1
                      /\ get_habit(habits', a.chat_id, a.habit_id)
                            = Some([emoji |-> a.emoji, name |-> a.name])
                      /\ \A t \in 0..MaxClock :
                            Statement(Database', a, t).habits = habits'
          /\ habits' # habits =>
                \E p \in Procs : Committing(p) /\ IsHabitCall(call[p])
         ]_vars

\* A set_habit call is about to return whose arguments are those the row of
\* its key already holds: the second of two identical calls
C11_Witness ==
    \E p \in Procs :
       /\ pc[p] = "executed"
       /\ IsHabitCall(call[p])
       /\ get_habit(habits, call[p].chat_id, call[p].habit_id)
             = Some([emoji |-> call[p].emoji, name |-> call[p].name])
       /\ txn[1].habits = habits
       /\ txn[1].sqlite_sequence.habits = sqlite_sequence.habits + 1

\* The step runs the statement of p's call
Executing(p) == pc[p] = "connected" /\ pc'[p] = "executed"

\* C12: table users never holds two rows of one (chat_id, user_id); when a
\* set_user call returns, its key has exactly one row and get_user yields the
\* call's (emoji, name); if the key had a row, the row keeps its created_at,
\* and its updated_at is the time at which the call's statement ran, which
\* is not earlier than the value it had; and no step but the return of a
\* set_user call changes the table.
C12_UserUpsertOverwrites ==
    /\ [](\A r, q \in users :
             (r.chat_id = q.chat_id /\ r.user_id = q.user_id) => r = q)
    /\ [][/\ \A p \in Procs :
               (Executing(p) /\ IsUserCall(call[p])) =>
                  \A r \in UserRows(txn'[1].users, call[p].chat_id,
                                    call[p].user_id) :
                     r.updated_at = now
          /\ \A p \in Procs :
               (Committing(p) /\ IsUserCall(call[p])) =>
                  LET a == call[p]
                      old == UserRows(users, a.chat_id, a.user_id)
                      new == UserRows(users', a.chat_id, a.user_id)
                  IN  /\ Cardinality(new) = 1
                      /\ new = UserRows(txn[1].users, a.chat_id, a.user_id)
                      /\ get_user(users', a.chat_id, a.user_id)
                            = Some([emoji |-> a.emoji, name |-> a.name])
                      /\ \A r \in old, q \in new :
                            /\ q.created_at = r.created_at
                            /\ q.updated_at >= r.updated_at
                            /\ q.updated_at <= now
          /\ users' # users =>
                \E p \in Procs : Committing(p) /\ IsUserCall(call[p])
         ]_vars

\* A set_user call is about to return that ran, at a later time, on a key
\* whose row an earlier call created with other values
C12_Witness ==
    \E p \in Procs :
       /\ pc[p] = "executed"
       /\ IsUserCall(call[p])
       /\ \E r \in UserRows(users, call[p].chat_id, call[p].user_id) :
          \E q \in UserRows(txn[1].users, call[p].chat_id, call[p].user_id) :
             /\ r.emoji # q.emoji
             /\ q.updated_at > r.updated_at
             /\ q.created_at = r.created_at
             /\ q.created_at < q.updated_at

HabitKeys(H) == {<<r.chat_id, r.habit_id>> : r \in H}
UserKeys(U) == {<<r.chat_id, r.user_id>> : r \in U}

\* C13: no step removes a (chat_id, habit_id) from table habits or a
\* (chat_id, user_id) from table users, and a step after which a key of
\* tracker_entries has no row any more is the return of a set_tracker_entry
\* call with status None on exactly this key.
C13_OnlyUnknownDeletes ==
    [][/\ HabitKeys(habits) \subseteq HabitKeys(habits')
       /\ UserKeys(users) \subseteq UserKeys(users')
       /\ \A r \in tracker_entries :
             RowsOf(tracker_entries', r) = {} =>
                \E p \in Procs :
                   /\ Committing(p)
                   /\ IsEntryCall(call[p])
                   /\ call[p].status = "None"
                   /\ SameKey(call[p], r)
      ]_vars

\* A call with status None has deleted, in its transaction, the row of its
\* key, in a database that holds habits, users and rows of other keys, while
\* a set_habit call on an existing key waits for the write lock
C13_Witness ==
    \E p, q \in Procs :
       /\ pc[p] = "executed"
       /\ IsEntryCall(call[p])
       /\ call[p].status = "None"
       /\ RowsOf(tracker_entries, call[p]) # {}
       /\ RowsOf(txn[1].tracker_entries, call[p]) = {}
       /\ txn[1].tracker_entries # {}
       /\ pc[q] = "connected"
       /\ IsHabitCall(call[q])
       /\ HabitRows(habits, call[q].chat_id, call[q].habit_id) # {}
       /\ users # {}

\* C14: a set_tracker_entry call with status None whose key has no row can
\* return normally once its statement has run, and its return leaves the
\* three tables and the row counters as they were; and running the
\* statement of a status-None call a second time changes nothing the first
\* run left.
C14_UnknownOnAbsentKeyIsNoOp ==
    /\ [](\A p \in Procs :
             (pc[p] = "executed" /\ IsEntryCall(call[p])
                 /\ call[p].status = "None") =>
                /\ ENABLED Commit(p)
                /\ Statement(txn[1], call[p], now) = txn[1])
    /\ [][\A p \in Procs :
             (Committing(p) /\ IsEntryCall(call[p]) /\ call[p].status = "None"
                 /\ RowsOf(tracker_entries, call[p]) = {}) =>
                Database' = Database
         ]_vars

\* A call with status None has run its statement on a key without a row,
\* while the pair of the key has a row of another day and tables habits
\* and users hold rows
C14_Witness ==
    \E p \in Procs :
       /\ pc[p] = "executed"
       /\ IsEntryCall(call[p])
       /\ call[p].status = "None"
       /\ RowsOf(tracker_entries, call[p]) = {}
       /\ \E r \in tracker_entries :
             /\ r.chat_id = call[p].chat_id
             /\ r.user_id = call[p].user_id
             /\ r.habit_id = call[p].habit_id
       /\ habits # {}
       /\ users # {}

----------------------------------------------------------------------------
(* Tracker entries and the metadata tables *)

\* C15: a set_tracker_entry call with status True or False, on a key whose
\* chat has no habits row of its habit_id and no users row of its user_id,
\* can return normally once its statement has run; its return leaves tables
\* habits and users as they were, so get_habit and get_user of the key still
\* yield None, and get_all_user_habits_for_chat then lists the key's
\* (user_id, habit_id).
C15_EntryNeedsNoMetadata ==
    /\ [](\A p \in Procs :
             (pc[p] = "executed" /\ IsEntryCall(call[p])
                 /\ call[p].status \in {"True", "False"}) =>
                ENABLED Commit(p))
    /\ [][\A p \in Procs :
             (/\ Committing(p)
              /\ IsEntryCall(call[p])
              /\ call[p].status \in {"True", "False"}
              /\ HabitRows(habits, call[p].chat_id, call[p].habit_id) = {}
              /\ UserRows(users, call[p].chat_id, call[p].user_id) = {}) =>
                LET a == call[p]
                IN  /\ habits' = habits
                    /\ users' = users
                    /\ get_habit(habits', a.chat_id, a.habit_id) = None
                    /\ get_user(users', a.chat_id, a.user_id) = None
                    /\ HasPair(get_all_user_habits_for_chat(tracker_entries',
                                                            a.chat_id),
                               a.user_id, a.habit_id)
         ]_vars

\* A call with status True or False has inserted, in its transaction, the
\* first row of a pair whose chat has neither a habits row of the habit_id
\* nor a users row of the user_id, while another chat has a habits row of
\* this very habit_id
C15_Witness ==
    \E p \in Procs :
       /\ pc[p] = "executed"
       /\ IsEntryCall(call[p])
       /\ call[p].status \in {"True", "False"}
       /\ HabitRows(habits, call[p].chat_id, call[p].habit_id) = {}
       /\ UserRows(users, call[p].chat_id, call[p].user_id) = {}
       /\ \E r \in habits : r.habit_id = call[p].habit_id
       /\ ~HasPair(get_all_user_habits_for_chat(tracker_entries, call[p].chat_id),
                   call[p].user_id, call[p].habit_id)
       /\ RowsOf(txn[1].tracker_entries, call[p]) # {}

\* The value the dict d holds for key, or None
DictGet(d, key) ==
    IF key \in DictKeys(d)
    THEN Some(d[CHOOSE i \in DOMAIN d : d[i][1] = key][2])
    ELSE None

DictItemsOnce(d) == \A i, j \in DOMAIN d : d[i][1] = d[j][1] => i = j

\* C16: get_all_habits_for_chat(chat) holds exactly the habit_ids of the
\* chat's habits rows, each once and mapped to the (emoji, name) get_habit
\* yields, in ascending order of habit_id, and is empty for a chat without
\* rows; when a set_habit call returns, its habit_id is in its chat's dict
\* with the call's (emoji, name).  The same holds of get_all_users_for_chat,
\* users rows, user_id order, get_user and set_user.
C16_MetadataListsExactAndOrdered ==
    /\ [](\A c \in Chats :
             LET hd == get_all_habits_for_chat(habits, c)
                 ud == get_all_users_for_chat(users, c)
             IN  /\ DictKeys(hd) = {r.habit_id : r \in {x \in habits : x.chat_id = c}}
                 /\ DictItemsOnce(hd)
                 /\ \A i \in DOMAIN hd :
                       Some(hd[i][2]) = get_habit(habits, c, hd[i][1])
                 /\ \A i, j \in DOMAIN hd :
                       i < j => TextLess(hd[i][1], hd[j][1])
                 /\ ({x \in habits : x.chat_id = c} = {} => hd = <<>>)
                 /\ DictKeys(ud) = {r.user_id : r \in {x \in users : x.chat_id = c}}
                 /\ DictItemsOnce(ud)
                 /\ \A i \in DOMAIN ud :
                       Some(ud[i][2]) = get_user(users, c, ud[i][1])
                 /\ \A i, j \in DOMAIN ud : i < j => ud[i][1] < ud[j][1]
                 /\ ({x \in users : x.chat_id = c} = {} => ud = <<>>))
    /\ [][\A p \in Procs :
             /\ (Committing(p) /\ IsHabitCall(call[p])) =>
                   DictGet(get_all_habits_for_chat(habits', call[p].chat_id),
                           call[p].habit_id)
                      = Some([emoji |-> call[p].emoji, name |-> call[p].name])
             /\ (Committing(p) /\ IsUserCall(call[p])) =>
                   DictGet(get_all_users_for_chat(users', call[p].chat_id),
                           call[p].user_id)
                      = Some([emoji |-> call[p].emoji, name |-> call[p].name])
         ]_vars

\* A set_habit call has overwritten, in its transaction, the values of a
\* habit of a chat with two habits and two users, both stored in descending
\* order of their ids; the dicts of the transaction's image list them in
\* ascending order, the habit with its new values; another chat has rows too
C16_Witness ==
    \E p \in Procs :
       /\ pc[p] = "executed"
       /\ IsHabitCall(call[p])
       /\ call[p].chat_id = 1
       /\ LET hd == get_all_habits_for_chat(txn[1].habits, 1)
              ud == get_all_users_for_chat(txn[1].users, 1)
          IN  /\ Len(hd) = 2
              /\ Len(ud) = 2
              /\ hd # get_all_habits_for_chat(habits, 1)
              /\ \E r, q \in habits :
                    /\ r.chat_id = 1 /\ q.chat_id = 1
                    /\ r.id < q.id /\ TextLess(q.habit_id, r.habit_id)
              /\ \E r, q \in users :
                    /\ r.chat_id = 1 /\ q.chat_id = 1
                    /\ r.id < q.id /\ q.user_id < r.user_id
       /\ get_all_habits_for_chat(habits, 2) # <<>>

----------------------------------------------------------------------------
(* Chats *)

\* Everything the read operations yield for chat_id on the database db
ReadsOf(db, chat_id) ==
    [get_tracker_entry |->
         [u \in Users |-> [h \in HabitIds |-> [d \in Dates |->
             get_tracker_entry(db.tracker_entries, chat_id, u, h, d)]]],
     get_tracker_entries_for_date_range |->
         [rg \in Ranges |->
             get_tracker_entries_for_date_range(db.tracker_entries, chat_id,
                                                rg[1], rg[2])],
     get_all_user_habits_for_chat |->
         get_all_user_habits_for_chat(db.tracker_entries, chat_id),
     get_user_habits_for_chat |->
         [u \in Users |-> get_user_habits_for_chat(db.tracker_entries,
                                                   chat_id, u)],
     get_habit |-> [h \in HabitIds |-> get_habit(db.habits, chat_id, h)],
     get_all_habits_for_chat |-> get_all_habits_for_chat(db.habits, chat_id),
     get_user |-> [u \in Users |-> get_user(db.users, chat_id, u)],
     get_all_users_for_chat |-> get_all_users_for_chat(db.users, chat_id)]

\* C17: the return of a set_tracker_entry, set_habit or set_user call for
\* one chat leaves what every read operation yields for every other chat as
\* it was, whatever user_id, habit_id and date the chats share.
C17_ChatsAreSeparate ==
    [][\A p \in Procs :
          Committing(p) =>
             \A c \in Chats \ {call[p].chat_id} :
                ReadsOf(Database', c) = ReadsOf(Database, c)
      ]_vars

\* A set_tracker_entry call changes, in its transaction, the value of a key
\* of its chat while another chat holds a row of the same user_id, habit_id
\* and date with another value, and habits and users rows of the same ids
C17_Witness ==
    \E p \in Procs :
       /\ pc[p] = "executed"
       /\ IsEntryCall(call[p])
       /\ txn[1].tracker_entries # tracker_entries
       /\ \E r \in tracker_entries :
             /\ r.chat_id # call[p].chat_id
             /\ r.user_id = call[p].user_id
             /\ r.habit_id = call[p].habit_id
             /\ r.date = call[p].date
             /\ Some(r.status) # getEntry(txn[1].tracker_entries, call[p])
             /\ get_habit(habits, r.chat_id, r.habit_id) # None
             /\ get_user(users, r.chat_id, r.user_id) # None

----------------------------------------------------------------------------
(* The data of the report *)

\* The date map the dict data holds for (user_id, habit_id), or None
PairMap(data, user_id, habit_id) ==
    IF DictGet(data, user_id) = None THEN None
    ELSE DictGet(DictGet(data, user_id)[1], habit_id)

\* The rows of the pair (user_id, habit_id) of the chat in the table T
PairRows(T, chat_id, user_id, habit_id) ==
    {r \in T : r.chat_id = chat_id /\ r.user_id = user_id
                  /\ r.habit_id = habit_id}

\* Those of the rows whose date lies in the fetch's range, by the calendar
InRange(rows) ==
    {r \in rows : /\ CalendarDay(fetch.date_start) <= CalendarDay(r.date)
                  /\ CalendarDay(r.date) <= CalendarDay(fetch.date_end)}

\* The (date, value) items a date map holds for the rows
Marks(rows) ==
    {<<r.date, IF r.status = 1 THEN "True" ELSE "False">> : r \in rows}

Items(d) == {d[i] : i \in DOMAIN d}

\* The step is the return of the get_tracker_data_for_chat call
FetchReturning == fetch.pc = "fetched" /\ fetch'.pc = "done"

\* What the call would return if both its reads saw the table T
ViewOf(T) ==
    get_tracker_data_for_chat(T, fetch.chat_id, fetch.date_start,
                              fetch.date_end)

\* C18: get_tracker_data_for_chat reads in two steps, between which writes
\* commit: the value it returns has a date map for exactly the pairs that
\* have a row when the second read runs, and each map holds exactly the
\* in-range rows the pair had when the first read ran; if no write changed
\* the table between the reads, this is the view of the table as it is at
\* the return.
C18_FetchReadsInTwoSteps ==
    /\ [](fetch.pc = "fetched" =>
             fetch.seen[Len(fetch.seen)] = tracker_entries)
    /\ [][FetchReturning =>
             /\ \A u \in Users, h \in HabitIds :
                   LET found == PairMap(fetch'.result, u, h)
                   IN  /\ found # None
                          <=> PairRows(tracker_entries, fetch.chat_id, u, h) # {}
                       /\ found # None =>
                             Items(found[1])
                                = Marks(InRange(PairRows(fetch.seen[1],
                                                         fetch.chat_id, u, h)))
             /\ Len(fetch.seen) = 1 => fetch'.result = ViewOf(tracker_entries)
         ]_vars

\* A call has returned a value that is the view of none of the tables that
\* were committed while it ran: a row it fetched is dropped because its pair
\* had no row left at the second read, and a pair has an empty map although
\* it had a row in the range at the second read
C18_Witness ==
    /\ fetch.pc = "done"
    /\ \A i \in DOMAIN fetch.seen : fetch.result # ViewOf(fetch.seen[i])
    /\ \E i \in DOMAIN fetch.entries :
          PairMap(fetch.result, fetch.entries[i][1], fetch.entries[i][2]) = None
    /\ \E u \in Users, h \in HabitIds :
          /\ PairMap(fetch.result, u, h) = Some(<<>>)
          /\ InRange(PairRows(fetch.seen[Len(fetch.seen)], fetch.chat_id, u, h))
                # {}

\* C20: when no write changed the table between the two reads of a
\* get_tracker_data_for_chat(chat, date_start, date_end) call, the value it
\* returns has a date map for exactly the (user_id, habit_id) that have a row
\* of the chat at any date; the map of a pair holds exactly the dates of the
\* pair's rows with date_start <= date <= date_end, each once, with True for
\* status 1 and False for status 0, so a date without a row is absent and a
\* pair with no row in the range has an empty map.
C20_ViewOfOneState ==
    (fetch.pc = "done" /\ Len(fetch.seen) = 1) =>
       \A u \in Users, h \in HabitIds :
          LET rows == PairRows(fetch.seen[1], fetch.chat_id, u, h)
              found == PairMap(fetch.result, u, h)
          IN  /\ found # None <=> rows # {}
              /\ found # None =>
                    /\ Items(found[1]) = Marks(InRange(rows))
                    /\ Len(found[1]) = Cardinality(InRange(rows))

\* A call whose reads saw one table has returned a pair whose only row is
\* of a day before the range, with an empty map, beside a pair with a True
\* and a False in the range and a row before it
C20_Witness ==
    /\ fetch.pc = "done"
    /\ Len(fetch.seen) = 1
    /\ \E u \in Users, h \in HabitIds :
          /\ PairMap(fetch.result, u, h) = Some(<<>>)
          /\ PairRows(fetch.seen[1], fetch.chat_id, u, h) # {}
    /\ \E u \in Users, h \in HabitIds :
          /\ PairMap(fetch.result, u, h) # None
          /\ {m[2] : m \in Items(PairMap(fetch.result, u, h)[1])}
                = {"True", "False"}
          /\ PairRows(fetch.seen[1], fetch.chat_id, u, h)
                # InRange(PairRows(fetch.seen[1], fetch.chat_id, u, h))

----------------------------------------------------------------------------
(* The report.  The code that renders it is not among the sources; its    *)
(* rows are modelled from section 4.2 of the specification, steps 3 to 6, *)
(* over the value get_tracker_data_for_chat returned and the metadata     *)
(* dicts.  A row is the sequence of its cells.                            *)

\* The glyphs of the cells: done, not done, unknown, and the placeholder
\* for missing metadata
GlyphDone == "done"
GlyphNotDone == "not done"
GlyphUnknown == "unknown"
GlyphPlaceholder == "?"

RECURSIVE OrderInts(_)
OrderInts(S) ==
    IF S = {} THEN <<>>
    ELSE LET first == CHOOSE x \in S : \A y \in S : x <= y
         IN  <<first>> \o OrderInts(S \ {first})

\* Step 3: user_id ascending, within each user its habit_id set ascending,
\* flattened into one list of (user_id, habit_id)
RECURSIVE FlattenColumns(_, _)
FlattenColumns(user_ids, data) ==
    IF user_ids = <<>> THEN <<>>
    ELSE LET user_id == Head(user_ids)
             habit_ids == OrderTexts(DictKeys(DictGet(data, user_id)[1]))
         IN  [i \in DOMAIN habit_ids |-> <<user_id, habit_ids[i]>>]
                \o FlattenColumns(Tail(user_ids), data)

Columns(data) == FlattenColumns(OrderInts(DictKeys(data)), data)

\* The emoji of a metadata dict's entry, or the placeholder
EmojiOf(metadata, key) ==
    IF DictGet(metadata, key) = None THEN GlyphPlaceholder
    ELSE DictGet(metadata, key)[1].emoji

\* Step 4: for each user in sorted order, the user's emoji once per habit
\* column the user owns
RECURSIVE UserCells(_, _, _)
UserCells(user_ids, data, users_metadata) ==
    IF user_ids = <<>> THEN <<>>
    ELSE LET user_id == Head(user_ids)
             owned == Cardinality(DictKeys(DictGet(data, user_id)[1]))
         IN  [i \in 1..owned |-> EmojiOf(users_metadata, user_id)]
                \o UserCells(Tail(user_ids), data, users_metadata)

UserHeaderRow(data, users_metadata) ==
    UserCells(OrderInts(DictKeys(data)), data, users_metadata)

\* Step 5: for each column in the flattened order, the habit's emoji
HabitHeaderRow(data, habits_metadata) ==
    LET columns == Columns(data)
    IN  [i \in DOMAIN columns |-> EmojiOf(habits_metadata, columns[i][2])]

\* The glyph of the value the data holds for a column at a date
StatusGlyph(data, column, date) ==
    LET marks == DictGet(DictGet(data, column[1])[1], column[2])[1]
    IN  IF DictGet(marks, date) = Some("True") THEN GlyphDone
        ELSE IF DictGet(marks, date) = Some("False") THEN GlyphNotDone
        ELSE GlyphUnknown

\* Step 6: for each column in the flattened order, the status glyph
DateRow(data, date) ==
    LET columns == Columns(data)
    IN  [i \in DOMAIN columns |-> StatusGlyph(data, columns[i], date)]

\* The (user_id, habit_id) keys of the data in the order in which the dicts
\* hold them
RECURSIVE KeysInDictOrder(_)
KeysInDictOrder(data) ==
    IF data = <<>> THEN <<>>
    ELSE [i \in DOMAIN Head(data)[2] |-> <<Head(data)[1], Head(data)[2][i][1]>>]
            \o KeysInDictOrder(Tail(data))

\* The (user_id, habit_id) of a dict of habit lists, in the order in which
\* the dict and its lists hold them
RECURSIVE PairsInListOrder(_)
PairsInListOrder(d) ==
    IF d = <<>> THEN <<>>
    ELSE [i \in DOMAIN Head(d)[2] |-> <<Head(d)[1], Head(d)[2][i]>>]
            \o PairsInListOrder(Tail(d))

\* C19: the columns of the report for a value get_tracker_data_for_chat
\* returned are in strictly ascending order of (user_id, habit_id), so none
\* is listed twice; this is the order in which the returned dicts, and the
\* dict get_all_user_habits_for_chat gave at the second read, hold their
\* keys; and the user header row, the habit header row and every date row
\* have one cell per column, the i-th cell being that of the i-th column.
C19_ColumnsAlignedAndOrdered ==
    fetch.pc = "done" =>
       \A data \in {fetch.result} :
       \A columns \in {Columns(data)} :
          /\ \A i, j \in DOMAIN columns :
                i < j => PairBefore(columns[i], columns[j])
          /\ columns = KeysInDictOrder(data)
          /\ columns = PairsInListOrder(get_all_user_habits_for_chat(
                           fetch.seen[Len(fetch.seen)], fetch.chat_id))
          /\ LET users_metadata == get_all_users_for_chat(users, fetch.chat_id)
                 habits_metadata == get_all_habits_for_chat(habits, fetch.chat_id)
                 user_row == UserHeaderRow(data, users_metadata)
                 habit_row == HabitHeaderRow(data, habits_metadata)
             IN  /\ Len(user_row) = Len(columns)
                 /\ Len(habit_row) = Len(columns)
                 /\ \A i \in DOMAIN columns :
                       /\ user_row[i] = EmojiOf(users_metadata, columns[i][1])
                       /\ habit_row[i] = EmojiOf(habits_metadata, columns[i][2])
          /\ \A date \in Dates :
                LET date_row == DateRow(data, date)
                IN  /\ Len(date_row) = Len(columns)
                    /\ \A i \in DOMAIN columns :
                          date_row[i] = StatusGlyph(data, columns[i], date)

\* The report of a chat has three columns, two of one user and one of
\* another, whose rows were inserted in another order than that of the
\* columns; the user header row shows the first user's emoji twice and then
\* the second user's
C19_Witness ==
    /\ fetch.pc = "done"
    /\ Len(Columns(fetch.result)) = 3
    /\ \E r, q \in fetch.seen[Len(fetch.seen)] :
          /\ r.chat_id = fetch.chat_id
          /\ q.chat_id = fetch.chat_id
          /\ r.id < q.id
          /\ PairBefore(<<q.user_id, q.habit_id>>, <<r.user_id, r.habit_id>>)
    /\ LET user_row == UserHeaderRow(fetch.result,
                                     get_all_users_for_chat(users, fetch.chat_id))
       IN  /\ user_row[1] = user_row[2]
           /\ user_row[2] # user_row[3]
           /\ GlyphPlaceholder \notin {user_row[1], user_row[3]}

----------------------------------------------------------------------------
(* The stored status *)

\* C22: whatever values the callers pass for status, every row of
\* tracker_entries has status 0 or 1: get_tracker_entry of a key that has a
\* row yields 0 or 1, never None, and every tuple of
\* get_tracker_entries_for_date_range carries 0 or 1.
C22_StatusIsZeroOrOne ==
    /\ \A r \in tracker_entries :
          /\ r.status \in {0, 1}
          /\ getEntry(tracker_entries, r) \in {Done, NotDone}
    /\ \A c \in Chats :
          LET listed == get_tracker_entries_for_date_range(
                            tracker_entries, c, <<>>, <<58>>)
          IN  \A i \in DOMAIN listed : listed[i][4] \in {0, 1}

\* A call that passes the integer 2 for status has upserted, in its
\* transaction, a row that reads back as 1, over a database with other rows
C22_Witness ==
    \E p \in Procs :
       /\ pc[p] = "executed"
       /\ call[p].op \in {"set_tracker_entry", "mark_habit"}
       /\ call[p].status = "2"
       /\ getEntry(txn[1].tracker_entries, call[p]) = Done
       /\ tracker_entries # {}

----------------------------------------------------------------------------
(* The habit list of one user *)

\* C23: for every chat and user, get_user_habits_for_chat(chat, user) is the
\* list get_all_user_habits_for_chat(chat) holds for the user, in strictly
\* ascending order, and it is empty exactly when the user is no key of that
\* dict.
C23_UserHabitsMatchPairs ==
    \A c \in Chats, u \in Users :
       LET habit_list == get_user_habits_for_chat(tracker_entries, c, u)
           all_user_habits == get_all_user_habits_for_chat(tracker_entries, c)
       IN  /\ habit_list = <<>> <=> DictGet(all_user_habits, u) = None
           /\ habit_list # <<>> => Some(habit_list) = DictGet(all_user_habits, u)
           /\ \A i, j \in DOMAIN habit_list :
                 i < j => TextLess(habit_list[i], habit_list[j])

\* A user has two habits in one chat, one of them on several days and the
\* later habit id inserted first, and a habit in another chat; another user
\* has no row in that other chat
C23_Witness ==
    /\ Len(get_user_habits_for_chat(tracker_entries, 1, 1)) = 2
    /\ \E r, q \in tracker_entries :
          /\ r.chat_id = 1 /\ r.user_id = 1
          /\ q.chat_id = 1 /\ q.user_id = 1
          /\ r.habit_id = q.habit_id
          /\ r.date # q.date
    /\ \E r, q \in tracker_entries :
          /\ r.chat_id = 1 /\ r.user_id = 1
          /\ q.chat_id = 1 /\ q.user_id = 1
          /\ r.id < q.id
          /\ TextLess(q.habit_id, r.habit_id)
    /\ get_user_habits_for_chat(tracker_entries, 2, 1) # <<>>
    /\ get_user_habits_for_chat(tracker_entries, 2, 2) = <<>>

----------------------------------------------------------------------------
(* The timestamps of a tracker entry *)

\* C29: the statement of a set_tracker_entry call with status True or False
\* stamps the key's row with the time at which it runs; when such a call
\* returns on a key that had a row, the row is the same row (same id) with
\* its created_at, and its updated_at is not earlier than before; and no
\* step changes the id or the created_at of a key that has a row before and
\* after it, so a key gets a new created_at only by a row inserted after
\* its row was deleted.
C29_UpsertKeepsCreatedAt ==
    [][/\ \A p \in Procs :
             (Executing(p) /\ IsEntryCall(call[p])
                 /\ call[p].status \in {"True", "False"}) =>
                \A r \in RowsOf(txn'[1].tracker_entries, call[p]) :
                   r.updated_at = now
       /\ \A p \in Procs :
             (Committing(p) /\ IsEntryCall(call[p])
                 /\ call[p].status \in {"True", "False"}) =>
                \A r \in RowsOf(tracker_entries, call[p]) :
                \A q \in RowsOf(tracker_entries', call[p]) :
                   /\ q.updated_at >= r.updated_at
                   /\ q.updated_at <= now
                   /\ q \in RowsOf(txn[1].tracker_entries, call[p])
       /\ \A r \in tracker_entries : \A q \in tracker_entries' :
             SameKey(r, q) => (q.id = r.id /\ q.created_at = r.created_at)
       /\ \A q \in tracker_entries' :
             RowsOf(tracker_entries, q) = {} =>
                (q.created_at = q.updated_at /\ q.created_at <= now)
      ]_vars

\* A call is about to return that ran, at a later time than the row's
\* creation, on a key that has a row with the opposite value
C29_Witness ==
    \E p \in Procs :
       /\ pc[p] = "executed"
       /\ IsEntryCall(call[p])
       /\ call[p].status \in {"True", "False"}
       /\ \E r \in RowsOf(tracker_entries, call[p]) :
          \E q \in RowsOf(txn[1].tracker_entries, call[p]) :
             /\ q.status # r.status
             /\ q.created_at = r.created_at
             /\ q.updated_at > r.updated_at
             /\ q.updated_at > q.created_at

----------------------------------------------------------------------------
(* The lines of the report, modelled from section 4.2 of the              *)
(* specification, steps 1, 7 and the edge cases.  A line is the sequence  *)
(* of its parts: a title, or a leading part followed by the cells.        *)

\* Step 1 for today = Day3: the 7 dates from today - 6 days to today,
\* oldest first
RenderingWindow ==
    <<strftime(2024, 1, 26), strftime(2024, 1, 27), strftime(2024, 1, 28),
      strftime(2024, 1, 29), Day1, Day2, Day3>>

\* Step 7: the two title lines
TitleLines == <<<<"calendar">>, <<"month">>>>

\* Step 7: the two leading spaces of a header row
HeaderPrefix == "  "

\* Step 6: the numeric day of the month
DayOfMonth(date) == 10 * DigitAt(date, 9) + DigitAt(date, 10)

\* Steps 4 to 7: title lines, header rows, date rows
RenderReport(data, users_metadata, habits_metadata, window) ==
    TitleLines
       \o << <<HeaderPrefix>> \o UserHeaderRow(data, users_metadata),
             <<HeaderPrefix>> \o HabitHeaderRow(data, habits_metadata) >>
       \o [i \in DOMAIN window |->
              <<DayOfMonth(window[i])>> \o DateRow(data, window[i])]

\* The report of the chat on the database db
ReportOf(db, chat_id) ==
    RenderReport(get_tracker_data_for_chat(db.tracker_entries, chat_id,
                                           RenderingWindow[1],
                                           RenderingWindow[Len(RenderingWindow)]),
                 get_all_users_for_chat(db.users, chat_id),
                 get_all_habits_for_chat(db.habits, chat_id),
                 RenderingWindow)

\* The report has no column: the header rows are their prefix and each of
\* the 7 date rows is its day number
EmptyGrid(lines) ==
    /\ Len(lines) = 11
    /\ \A i \in {3, 4} : Len(lines[i]) = 1 /\ lines[i][1] = HeaderPrefix
    /\ \A i \in 1..7 :
          /\ Len(lines[4 + i]) = 1
          /\ lines[4 + i][1] = DayOfMonth(RenderingWindow[i])

\* C21: for a chat without tracker_entries rows, whatever habits and users
\* rows it has and whatever rows it had, get_all_user_habits_for_chat and
\* get_tracker_data_for_chat yield empty dicts and the report has no
\* column: two title lines, two header rows with the two-space prefix
\* alone, and 7 date rows with the day number alone.
C21_EmptyChatReport ==
    \A c \in Chats :
       (\A r \in tracker_entries : r.chat_id # c) =>
          /\ get_all_user_habits_for_chat(tracker_entries, c) = <<>>
          /\ get_tracker_data_for_chat(tracker_entries, c, RenderingWindow[1],
                                       RenderingWindow[7]) = <<>>
          /\ Columns(<<>>) = <<>>
          /\ EmptyGrid(ReportOf(Database, c))

\* A call with status None has deleted, in its transaction, the last row of
\* a chat that has habits and users rows, while the other chat keeps a row:
\* the report of the transaction's image has no column
C21_Witness ==
    \E p \in Procs :
       /\ pc[p] = "executed"
       /\ IsEntryCall(call[p])
       /\ call[p].status = "None"
       /\ \E r \in tracker_entries : r.chat_id = call[p].chat_id
       /\ \A r \in txn[1].tracker_entries : r.chat_id # call[p].chat_id
       /\ txn[1].tracker_entries # {}
       /\ get_all_habits_for_chat(habits, call[p].chat_id) # <<>>
       /\ get_all_users_for_chat(users, call[p].chat_id) # <<>>
       /\ EmptyGrid(ReportOf(txn[1], call[p].chat_id))

----------------------------------------------------------------------------
(* init_test_data: the seeding of a new chat *)

\* range(7): the days the seeding covers, today included
SeedDays == 7

\* The habit_id literals of init_test_data
Meditation == <<109, 101, 100, 105, 116, 97, 116, 105, 111, 110>>
Reading == <<114, 101, 97, 100, 105, 110, 103>>
Sport == <<115, 112, 111, 114, 116>>
Medicine == <<109, 101, 100, 105, 99, 105, 110, 101>>
Milk == <<109, 105, 108, 107>>
Walk == <<119, 97, 108, 107>>
Dance == <<100, 97, 110, 99, 101>>
Positive == <<112, 111, 115, 105, 116, 105, 118, 101>>

\* The eight set_habit calls, in the order of the source; the emoji and the
\* name of a habit are written here as "e:" and "n:" with the habit's id
SeedHabits(chat_id) ==
    <<HabitCall(chat_id, Meditation, "e:meditation", "n:meditation"),
      HabitCall(chat_id, Reading, "e:reading", "n:reading"),
      HabitCall(chat_id, Sport, "e:sport", "n:sport"),
      HabitCall(chat_id, Medicine, "e:medicine", "n:medicine"),
      HabitCall(chat_id, Milk, "e:milk", "n:milk"),
      HabitCall(chat_id, Walk, "e:walk", "n:walk"),
      HabitCall(chat_id, Dance, "e:dance", "n:dance"),
      HabitCall(chat_id, Positive, "e:positive", "n:positive")>>

\* The five set_user calls; user1_id .. user5_id are numbered 1 .. 5 here
\* (user4_id = 5812633895 is wider than the integers of the model checker)
SeedUsers(chat_id) ==
    [u \in 1..5 |-> UserCall(chat_id, u, <<"e:user", u>>, <<"n:user", u>>)]

\* today + timedelta(days=i) for a today of 2024-01-30, as strftime gives it
DaysFromToday ==
    <<strftime(2024, 1, 30), strftime(2024, 1, 31), strftime(2024, 2, 1),
      strftime(2024, 2, 2), strftime(2024, 2, 3), strftime(2024, 2, 4),
      strftime(2024, 2, 5)>>

SeedDates == [i \in 1..SeedDays |-> DaysFromToday[i]]

\* for date in dates: one set_tracker_entry(..., False) per habit of the user
SeedEntries(chat_id, user_id, habit_ids) ==
    [i \in 1..(Len(SeedDates) * Len(habit_ids)) |->
        EntryCall(Key(chat_id, user_id,
                      habit_ids[((i - 1) % Len(habit_ids)) + 1],
                      SeedDates[((i - 1) \div Len(habit_ids)) + 1]),
                  "False")]

\* The calls init_test_data makes once its guard has found no habit
TestDataScript(chat_id) ==
    SeedHabits(chat_id) \o SeedUsers(chat_id)
       \o SeedEntries(chat_id, 1, <<Meditation, Reading, Sport>>)
       \o SeedEntries(chat_id, 2, <<Medicine, Sport, Milk>>)
       \o SeedEntries(chat_id, 3, <<Walk, Reading, Milk>>)
       \o SeedEntries(chat_id, 4, <<Reading, Sport, Dance>>)
       \o SeedEntries(chat_id, 5, <<Positive>>)

\* The caller's previous program is over: it made its last call, or one of
\* its calls raised
ProgramOver(p) ==
    /\ pc[p] = "idle"
    /\ ip[p] > Len(script[p]) \/ outcome[p] = "error"

\* A seeding without the guard: the calls are made whatever the chat holds
InitTestData_unguarded(p, chat_id) ==
    /\ ProgramOver(p)
    /\ script' = [script EXCEPT ![p] = TestDataScript(chat_id)]
    /\ outcome' = [outcome EXCEPT ![p] = "none"]
    /\ ip' = [ip EXCEPT ![p] = 1]
    /\ UNCHANGED <<tracker_entries, habits, users, sqlite_sequence, now, pc,
                   call, writer, txn, calls, fetch, botVars>>

\* init_test_data(chat_id) up to its first write: the guard reads the
\* chat's habits and returns when there is one, otherwise the calls of the
\* seeding are ahead of the caller (Issue makes them one after another)
InitTestData(p, chat_id) ==
    /\ ProgramOver(p)
    /\ LET existing_habits == get_all_habits_for_chat(habits, chat_id)
       IN  IF existing_habits # <<>>
           THEN /\ script' = [script EXCEPT ![p] = <<>>]
                /\ outcome' = [outcome EXCEPT ![p] = "exists"]
           ELSE /\ script' = [script EXCEPT ![p] = TestDataScript(chat_id)]
                /\ outcome' = [outcome EXCEPT ![p] = "none"]
    /\ ip' = [ip EXCEPT ![p] = 1]
    /\ UNCHANGED <<tracker_entries, habits, users, sqlite_sequence, now, pc,
                   call, writer, txn, calls, fetch, botVars>>

\* The chat that is seeded, and the marks a member sets on seeded keys
SeedChat == 1

SeedMarks ==
    {EntryCall(Key(SeedChat, 1, Meditation, SeedDates[1]), "True"),
     EntryCall(Key(SeedChat, 5, Positive, SeedDates[2]), "None")}

\* A member sets a mark in a chat that has habits, once the seeding is over
MarkAfterSeeding(p, a) ==
    /\ ProgramOver(1)
    /\ get_all_habits_for_chat(habits, a.chat_id) # <<>>
    /\ Call(p, a)

\* Caller 1 seeds the chat and caller 2 sets marks in it, one after the other
NextSeed ==
    \/ pc[2] = "idle" /\ InitTestData(1, SeedChat)
    \/ Issue(1)
    \/ \E a \in SeedMarks : MarkAfterSeeding(2, a)
    \/ \E p \in Procs : Execute(p)
    \/ \E p \in Procs : Commit(p)
    \/ \E p \in Procs : Raise(p)

SpecSeed == Init /\ [][NextSeed]_vars

\* The rows of a chat in the three tables
ChatRows(db, chat_id) ==
    [tracker_entries |-> {r \in db.tracker_entries : r.chat_id = chat_id},
     habits |-> {r \in db.habits : r.chat_id = chat_id},
     users |-> {r \in db.users : r.chat_id = chat_id}]

\* C30: when init_test_data(chat) finds a habit of the chat at its guard read
\* it returns at once: the step changes no table and leaves the caller with
\* no call to make, so that while the caller stays returned from the guard
\* every change of the chat's rows is another caller's commit (marks set
\* after a first seeding survive a second call, and a seeding that stopped
\* after its first set_habit is not completed by the second call)
C30_GuardedSeedingWritesNothing ==
    /\ [][\A c \in Chats :
            InitTestData(1, c) /\ {r \in habits : r.chat_id = c} # {}
               => /\ script'[1] = <<>>
                  /\ outcome'[1] = "exists"
                  /\ Database' = Database]_vars
    /\ [][outcome[1] = "exists"
            => /\ pc'[1] = "idle"
               /\ ~ENABLED Issue(1)
               /\ ChatRows(Database', SeedChat) # ChatRows(Database, SeedChat)
                     => pc[2] = "executed" /\ pc'[2] = "idle"]_vars

\* A seeding stopped after its first set_habit; the second call has returned
\* from its guard and the chat still holds that one habit and nothing else
C30_Witness ==
    /\ outcome[1] = "exists"
    /\ {r.habit_id : r \in ChatRows(Database, SeedChat).habits} = {Meditation}
    /\ ChatRows(Database, SeedChat).users = {}
    /\ ChatRows(Database, SeedChat).tracker_entries = {}

----------------------------------------------------------------------------
(* main.py: the handlers of /pin, /pin_new, /edit_pinned, /delete_my and   *)
(* /delete_any. A handler is one step: it reads the update, makes its Bot  *)
(* API calls, whose results the step draws from what Telegram can answer,  *)
(* and writes pinned_messages. The notices a handler sends with            *)
(* message.answer are taken to be delivered and are not kept as messages.  *)
(* Times are in hours; a text is the sequence of its words.                *)

\* EDIT_MESSAGE_MAX_AGE = timedelta(hours=48)
EDIT_MESSAGE_MAX_AGE == 48

\* DELETE_MESSAGE_MAX_AGE = timedelta(hours=48)
DELETE_MESSAGE_MAX_AGE == 48

\* The variables no handler of main.py touches
NotBot ==
    <<tracker_entries, habits, users, sqlite_sequence, now, pc, call, writer,
      txn, outcome, calls, script, ip, fetch>>

\* The texts of the exceptions the Bot API calls raise
NotEnoughRights ==
    <<"Telegram", "server", "says", "-", "Bad", "Request:", "not", "enough",
      "rights", "to", "manage", "pinned", "messages", "in", "the", "chat">>
MessageToEditNotFound ==
    <<"Telegram", "server", "says", "-", "Bad", "Request:", "message", "to",
      "edit", "not", "found">>
MessageCantBeEdited ==
    <<"Telegram", "server", "says", "-", "Bad", "Request:", "Message",
      "can't", "be", "edited">>
MessageNotModified ==
    <<"Telegram", "server", "says", "-", "Bad", "Request:", "message", "is",
      "not", "modified">>
MessageToDeleteNotFound ==
    <<"Telegram", "server", "says", "-", "Bad", "Request:", "message", "to",
      "delete", "not", "found">>
TooManyRequests ==
    <<"Telegram", "server", "says", "-", "Flood", "control", "exceeded">>

\* str.lower() on the words of the texts above
LowerWord(w) ==
    CASE w = "Telegram" -> "telegram"
      [] w = "Bad" -> "bad"
      [] w = "Request:" -> "request:"
      [] w = "Message" -> "message"
      [] w = "Flood" -> "flood"
      [] OTHER -> w

lower(text) == [i \in DOMAIN text |-> LowerWord(text[i])]

\* phrase in text
Contains(text, phrase) ==
    \E i \in 0..(Len(text) - Len(phrase)) :
       \A j \in DOMAIN phrase : text[i + j] = phrase[j]

\* message.text.split(maxsplit=1)
split(text) ==
    IF Len(text) < 2 THEN text ELSE <<Head(text), Tail(text)>>

\* One Bot API call of a handler: error is None when the call returned
ApiCall(method, message_id, error) ==
    [method |-> method, message_id |-> message_id, error |-> error]

\* The record of the update a handler has just handled
Ran(u, pinned_data, message_age, api_calls) ==
    last' = [update |-> u, pinned_data |-> pinned_data,
             message_age |-> message_age, calls |-> api_calls]

\* message.chat.type not in ['group', 'supergroup']
NotInGroup(u) == ChatType(u.chat_id) \notin {"group", "supergroup"}

\* What Telegram answers to a call on a message: a message that was deleted
\* cannot be pinned, edited or deleted, and any call can fail
PinResults(message_id) ==
    {Some(NotEnoughRights)}
       \cup (IF messages[message_id].deleted THEN {} ELSE {None})

EditResults(message_id) ==
    {Some(MessageToEditNotFound), Some(MessageCantBeEdited),
     Some(MessageNotModified), Some(TooManyRequests)}
       \cup (IF messages[message_id].deleted THEN {} ELSE {None})

DeleteResults(message_id) ==
    {Some(MessageToDeleteNotFound)}
       \cup (IF messages[message_id].deleted THEN {} ELSE {None})

SendResults == {None, Some(TooManyRequests)}

\* bot.pin_chat_message on Telegram's side: the message is the chat's latest
\* pinned message
PinChatMessage(chat_id, message_id) ==
    [pinned EXCEPT ![chat_id] = message_id]

\* An assignment that keeps the entry the chat already has
Store_keeps_first(chat_id, message_id, created_at) ==
    IF pinned_messages[chat_id] # None THEN pinned_messages
    ELSE [pinned_messages EXCEPT
             ![chat_id] = Some([message_id |-> message_id,
                                created_at |-> created_at])]

\* pinned_messages[message.chat.id] = {'message_id': ..., 'created_at': ...}
Store(chat_id, message_id, created_at) ==
    [pinned_messages EXCEPT
        ![chat_id] = Some([message_id |-> message_id,
                           created_at |-> created_at])]

\* pinned_messages.pop(message.chat.id, None)
Pop(chat_id) == [pinned_messages EXCEPT ![chat_id] = None]

\* A test that takes any named sender for the bot
is_this_bot_message_any_sender(reply_to_message) ==
    reply_to_message.from_user # None

\* message.reply_to_message.from_user and
\* message.reply_to_message.from_user.id == bot_id
is_this_bot_message(reply_to_message) ==
    /\ reply_to_message.from_user # None
    /\ reply_to_message.from_user[1] = bot_id

\* /pin
pin_message(u, pin_result) ==
    /\ u.command = "pin"
    /\ IF NotInGroup(u) \/ u.reply_to_message = None
       THEN /\ Ran(u, None, None, <<>>)
            /\ pin_result = None
            /\ UNCHANGED <<pinned_messages, pinned>>
       ELSE LET pinned_msg_id == u.reply_to_message[1]
                reply_to_message == messages[pinned_msg_id]
            IN  /\ pin_result \in PinResults(pinned_msg_id)
                /\ Ran(u, None, None,
                       <<ApiCall("pin_chat_message", pinned_msg_id,
                                 pin_result)>>)
                /\ IF pin_result = None
                   THEN /\ pinned' = PinChatMessage(u.chat_id, pinned_msg_id)
                        /\ pinned_messages' =
                              IF is_this_bot_message(reply_to_message)
                              THEN Store(u.chat_id, pinned_msg_id,
                                         reply_to_message.date)
                              ELSE pinned_messages
                   ELSE UNCHANGED <<pinned_messages, pinned>>
    /\ UNCHANGED <<messages, clock, NotBot>>

\* /pin_new; sent_message is the message message.answer has sent. Whether
\* the closing sent_message.edit_text succeeds changes nothing kept here
pin_new_message(u, answer_result, pin_result) ==
    /\ u.command = "pin_new"
    /\ IF NotInGroup(u)
       THEN /\ Ran(u, None, None, <<>>)
            /\ answer_result = None /\ pin_result = None
            /\ UNCHANGED <<pinned_messages, messages, pinned>>
       ELSE IF answer_result # None
       THEN /\ Ran(u, None, None, <<ApiCall("answer", 0, answer_result)>>)
            /\ pin_result = None
            /\ UNCHANGED <<pinned_messages, messages, pinned>>
       ELSE LET sent_message ==
                   [message_id |-> Len(messages) + 1, date |-> clock]
            IN  /\ Len(messages) < MaxMessages
                /\ messages' =
                      Append(messages,
                             [chat_id |-> u.chat_id,
                              from_user |-> Some(bot_id),
                              date |-> sent_message.date,
                              deleted |-> FALSE])
                /\ pin_result \in {None, Some(NotEnoughRights)}
                /\ IF pin_result = None
                   THEN /\ pinned' = PinChatMessage(u.chat_id,
                                                    sent_message.message_id)
                        /\ pinned_messages' =
                              Store(u.chat_id, sent_message.message_id,
                                    sent_message.date)
                        /\ Ran(u, None, None,
                               <<ApiCall("answer", sent_message.message_id,
                                         None),
                                 ApiCall("pin_chat_message",
                                         sent_message.message_id, None),
                                 ApiCall("edit_text",
                                         sent_message.message_id, None)>>)
                   ELSE /\ UNCHANGED <<pinned_messages, pinned>>
                        /\ Ran(u, None, None,
                               <<ApiCall("answer", sent_message.message_id,
                                         None),
                                 ApiCall("pin_chat_message",
                                         sent_message.message_id,
                                         pin_result)>>)
    /\ UNCHANGED <<clock, NotBot>>

\* A limit that the age of exactly 48 hours already exceeds
TooOldToEdit_at_limit(message_age) == message_age >= EDIT_MESSAGE_MAX_AGE

\* message_age > EDIT_MESSAGE_MAX_AGE
TooOldToEdit(message_age) == message_age > EDIT_MESSAGE_MAX_AGE

\* An except block that pops the entry on the not-found texts alone
EditErrorRemovesEntry_not_found_only(error_msg) ==
    \/ Contains(error_msg, <<"message", "to", "edit", "not", "found">>)
    \/ Contains(error_msg, <<"message", "not", "found">>)

\* The branches of /edit_pinned's except block that pop the chat's entry
EditErrorRemovesEntry(error_msg) ==
    \/ Contains(error_msg, <<"message", "to", "edit", "not", "found">>)
    \/ Contains(error_msg, <<"message", "not", "found">>)
    \/ Contains(error_msg, <<"can't", "be", "edited">>)
    \/ Contains(error_msg, <<"can't", "edit">>)

\* /edit_pinned
edit_pinned_message(u, edit_result) ==
    /\ u.command = "edit_pinned"
    /\ LET pinned_data == pinned_messages[u.chat_id]
       IN  IF NotInGroup(u)
           THEN /\ Ran(u, None, None, <<>>)
                /\ edit_result = None
                /\ UNCHANGED pinned_messages
           ELSE IF pinned_data = None
           THEN /\ Ran(u, pinned_data, None, <<>>)
                /\ edit_result = None
                /\ UNCHANGED pinned_messages
           ELSE LET pinned_msg_id == pinned_data[1].message_id
                    created_at == pinned_data[1].created_at
                    message_age == clock - created_at
                    parts == split(u.text)
                IN  IF TooOldToEdit(message_age)
                    THEN /\ Ran(u, pinned_data, Some(message_age), <<>>)
                         /\ edit_result = None
                         /\ pinned_messages' = Pop(u.chat_id)
                    ELSE IF Len(parts) < 2
                    THEN /\ Ran(u, pinned_data, Some(message_age), <<>>)
                         /\ edit_result = None
                         /\ UNCHANGED pinned_messages
                    ELSE /\ edit_result \in EditResults(pinned_msg_id)
                         /\ Ran(u, pinned_data, Some(message_age),
                                <<ApiCall("get_chat", 0, None),
                                  ApiCall("edit_message_text", pinned_msg_id,
                                          edit_result)>>)
                         /\ pinned_messages' =
                               IF /\ edit_result # None
                                  /\ EditErrorRemovesEntry(
                                        lower(edit_result[1]))
                               THEN Pop(u.chat_id)
                               ELSE pinned_messages
    /\ UNCHANGED <<messages, pinned, clock, NotBot>>

\* No limit on the age of the message to delete
TooOldToDelete_never(message_age) == FALSE

\* message_age > DELETE_MESSAGE_MAX_AGE
TooOldToDelete(message_age) == message_age > DELETE_MESSAGE_MAX_AGE

\* bot.delete_message on Telegram's side
DeleteMessage(message_id, delete_result) ==
    IF delete_result = None
    THEN [messages EXCEPT ![message_id].deleted = TRUE]
    ELSE messages

\* /delete_my
delete_my_message(u, delete_result) ==
    /\ u.command = "delete_my"
    /\ IF NotInGroup(u) \/ u.reply_to_message = None
       THEN /\ Ran(u, None, None, <<>>)
            /\ delete_result = None
            /\ UNCHANGED messages
       ELSE LET target_message == messages[u.reply_to_message[1]]
                message_age == clock - target_message.date
            IN  IF \/ target_message.from_user = None
                   \/ target_message.from_user[1] # bot_id
                THEN /\ Ran(u, None, None, <<>>)
                     /\ delete_result = None
                     /\ UNCHANGED messages
                ELSE IF TooOldToDelete(message_age)
                THEN /\ Ran(u, None, Some(message_age), <<>>)
                     /\ delete_result = None
                     /\ UNCHANGED messages
                ELSE /\ delete_result \in DeleteResults(u.reply_to_message[1])
                     /\ Ran(u, None, Some(message_age),
                            <<ApiCall("delete_message",
                                      u.reply_to_message[1], delete_result)>>)
                     /\ messages' = DeleteMessage(u.reply_to_message[1],
                                                  delete_result)
    /\ UNCHANGED <<pinned_messages, pinned, clock, NotBot>>

\* /delete_any
delete_any_message(u, delete_result) ==
    /\ u.command = "delete_any"
    /\ IF NotInGroup(u) \/ u.reply_to_message = None
       THEN /\ Ran(u, None, None, <<>>)
            /\ delete_result = None
            /\ UNCHANGED messages
       ELSE LET target_msg_id == u.reply_to_message[1]
            IN  /\ delete_result \in DeleteResults(target_msg_id)
                                        \cup {Some(NotEnoughRights)}
                /\ Ran(u, None, None,
                       <<ApiCall("delete_message", target_msg_id,
                                 delete_result)>>)
                /\ messages' = DeleteMessage(target_msg_id, delete_result)
    /\ UNCHANGED <<pinned_messages, pinned, clock, NotBot>>

\* Somebody posts a message in a group: the bot (any of its answers) or a
\* member. The messages of a private chat are not kept: every handler here
\* returns before it looks at them
Senders == {Some(bot_id), Some(bot_id + 1)}

Post(chat_id, from_user) ==
    /\ Len(messages) < MaxMessages
    /\ ChatType(chat_id) \in {"group", "supergroup"}
    /\ messages' = Append(messages,
                          [chat_id |-> chat_id, from_user |-> from_user,
                           date |-> clock, deleted |-> FALSE])
    /\ UNCHANGED <<pinned_messages, pinned, clock, last, NotBot>>

\* Time passes, by the 48 hours of the two limits
Pass ==
    /\ clock < EDIT_MESSAGE_MAX_AGE * MaxPeriods
    /\ clock' = clock + EDIT_MESSAGE_MAX_AGE
    /\ UNCHANGED <<pinned_messages, messages, pinned, last, NotBot>>

\* The updates Telegram can deliver: a command in a chat, as a reply to a
\* message of the chat or to none, with or without words after the command
Replies(chat_id) ==
    {None} \cup {Some(m) : m \in {i \in DOMAIN messages :
                                     messages[i].chat_id = chat_id}}

Update(command, chat_id, reply_to_message, text) ==
    [command |-> command, chat_id |-> chat_id,
     reply_to_message |-> reply_to_message, text |-> text]

Updates(command) ==
    UNION {{Update(command, c, r, <<"/" \o command>> \o words) :
               r \in Replies(c),
               words \in IF command = "edit_pinned"
                         THEN {<<>>, <<"new", "text">>}
                         ELSE {<<>>}} : c \in BotChats}

InitPins ==
    /\ tracker_entries = {}
    /\ habits = {}
    /\ users = {}
    /\ sqlite_sequence = EmptyDatabase.sqlite_sequence
    /\ InitCallers
    /\ script = [p \in Procs |-> <<>>]

NextPins ==
    \/ \E u \in Updates("pin") : \E r \in {None, Some(NotEnoughRights)} :
          pin_message(u, r)
    \/ \E u \in Updates("pin_new") : \E a \in SendResults :
          \E r \in {None, Some(NotEnoughRights)} : pin_new_message(u, a, r)
    \/ \E u \in Updates("edit_pinned") :
          \E r \in {None, Some(MessageToEditNotFound),
                    Some(MessageCantBeEdited), Some(MessageNotModified),
                    Some(TooManyRequests)} : edit_pinned_message(u, r)
    \/ \E u \in Updates("delete_my") :
          \E r \in {None, Some(MessageToDeleteNotFound)} :
             delete_my_message(u, r)
    \/ \E u \in Updates("delete_any") :
          \E r \in {None, Some(MessageToDeleteNotFound),
                    Some(NotEnoughRights)} : delete_any_message(u, r)
    \/ \E c \in BotChats : \E s \in Senders : Post(c, s)
    \/ Pass

SpecPins == InitPins /\ [][NextPins]_vars

----------------------------------------------------------------------------
(* Properties of the handlers of main.py *)

\* The step is a handler's, of an update with the given command
Handling(command) == last' # last /\ last'.update.command = command

\* The chat of the update handled in the step, and the message it replies to
HandledChat == last'.update.chat_id
HandledReply == last'.update.reply_to_message

\* The handler made the call
Called(run, method) == \E i \in DOMAIN run.calls : run.calls[i].method = method

\* The message names this bot as its sender
BotAuthored(m) == m.from_user = Some(bot_id)

\* The entry of a chat, when it has one
Entry(chat_id) == pinned_messages[chat_id][1]

C25_OnlyBotMessagesStored ==
    /\ [](\A c \in BotChats :
             pinned_messages[c] # None
                => BotAuthored(messages[Entry(c).message_id]))
    /\ [][(/\ Handling("pin")
           /\ ~NotInGroup(last'.update)
           /\ HandledReply # None
           /\ ~BotAuthored(messages[HandledReply[1]]))
             => /\ pinned_messages' = pinned_messages
                /\ Called(last', "pin_chat_message")
                /\ last'.calls[1].error = None
                      => pinned'[HandledChat] = HandledReply[1]]_vars
    /\ [][Handling("pin_new")
             => \/ pinned_messages' = pinned_messages
                \/ /\ Len(messages') = Len(messages) + 1
                   /\ BotAuthored(messages'[Len(messages')])
                   /\ messages'[Len(messages')].chat_id = HandledChat
                   /\ pinned_messages' =
                         [pinned_messages EXCEPT
                             ![HandledChat] =
                                Some([message_id |-> Len(messages'),
                                      created_at |->
                                         messages'[Len(messages')].date])]
         ]_vars

\* /pin has just pinned a member's message in a chat that has no entry
C25_Witness ==
    /\ last.update.command = "pin"
    /\ last.update.reply_to_message # None
    /\ ~BotAuthored(messages[last.update.reply_to_message[1]])
    /\ last.calls[1].error = None
    /\ pinned[last.update.chat_id] = last.update.reply_to_message[1]
    /\ pinned_messages[last.update.chat_id] = None

\* The age of the chat's stored message, in hours
EntryAge(chat_id) == clock - Entry(chat_id).created_at

NotFoundOrNotEditable == {MessageToEditNotFound, MessageCantBeEdited}

C28_DeleteMyGuards ==
    [][Handling("delete_my")
          => /\ pinned_messages' = pinned_messages
             /\ Called(last', "delete_message")
                   <=> /\ ChatType(HandledChat) \in {"group", "supergroup"}
                       /\ HandledReply # None
                       /\ messages[HandledReply[1]].from_user = Some(bot_id)
                       /\ clock - messages[HandledReply[1]].date <= 48
             /\ Called(last', "delete_message")
                   => /\ Len(last'.calls) = 1
                      /\ last'.calls[1].message_id = HandledReply[1]]_vars

\* /delete_my has just deleted the chat's stored message at the age of 48
\* hours, and the entry is still there
C28_Witness ==
    /\ last.update.command = "delete_my"
    /\ Called(last, "delete_message")
    /\ last.calls[1].error = None
    /\ last.message_age = Some(48)
    /\ pinned_messages[last.update.chat_id] # None
    /\ Entry(last.update.chat_id).message_id = last.update.reply_to_message[1]
    /\ messages[last.update.reply_to_message[1]].deleted

====
